---- MODULE Spec2Model ----
(***************************************************************************)
(* Verification model of the quantitative pipeline:                        *)
(*   - RegimeDetector (regime_model/hmm_regime.py): the on-disk model      *)
(*     cache, fit as a sequence of file reads and writes, predict;         *)
(*   - PortfolioOptimizer (optimizer/portfolio.py): optimize_by_regime and *)
(*     the convex solvers' post-processing of the solver outcome;          *)
(*   - Backtester (backtester/engine.py): run;                             *)
(*   - FactorEngine.drawdown_pct (feature_engine/factors.py);              *)
(*   - RiskEngine (risk_engine/monte_carlo.py): simulate_paths, run,       *)
(*     max_drawdowns_vectorized, compute_var_cvar;                         *)
(*   - the signal layer of PortfolioOptimizer: train_signal_model,         *)
(*     get_signals, _rule_based_signal.                                    *)
(* The specifications of the module: Spec and SpecSerial (regime           *)
(* detector, concurrent and one fit at a time), SpecOpt (regime            *)
(* allocation), SpecSolve (convex solvers), SpecBt (backtester), SpecSim   *)
(* and SpecRuin (Monte Carlo simulation and run), SpecDd (the drawdowns    *)
(* along run_pipeline.main), SpecSig and SpecRule (signals), SpecVar       *)
(* (VaR and CVaR in floating point), SpecTwin, SpecForced and SpecChain    *)
(* (two detectors built alike; forced refits; three fits in a row),        *)
(* SpecLoad (the data stage of run_pipeline.main), SpecMom (momentum),     *)
(* SpecRows (the weight rows of two dates of a run), SpecTrain (the        *)
(* training samples of the signal model), SpecBundle (the detector with    *)
(* the predict_proba call of main).                                        *)
(***************************************************************************)
EXTENDS Integers, Sequences, FiniteSets, TLC

VARIABLES
    \* ---- RegimeDetector / cache directory ----
    libs,       \* which optional libraries imported: [hmm, joblib, sklearn]
    det,        \* detector objects: constructor arguments and fitted fields
    pc,         \* position of each detector inside fit
    loc,        \* fit's local variables (X, fp, cached_fp, force_refit)
    hmmFile,    \* MODELS_DIR/regime_hmm_4.joblib
    fpFile,     \* MODELS_DIR/regime_fp_4.txt
    rfFile,     \* MODELS_DIR/regime_rf_4.joblib
    calls,      \* number of fit calls made so far
    outcome,    \* how each detector's last fit call ended
    pred,       \* what each detector's last predict call returned
    \* ---- PortfolioOptimizer ----
    opt,        \* optimize_by_regime: its arguments and the weight row of a date
    slv,        \* a convex solver call: arguments, solver outcome, returned value
    \* ---- Backtester ----
    bt,         \* Backtester.run: the prices, the weight schedules, the rate, the results
    \* ---- FactorEngine, signals, RiskEngine ----
    fac,        \* FactorEngine.drawdown_pct: the drawdown frame of the prices
    sig,        \* the signal model of an optimizer and the signals it last emitted
    risk,       \* RiskEngine: the random sources, the last simulation and its metrics
    \* ---- run_pipeline.main ----
    pipe        \* the data stage of one invocation: what the loader gave, what the stages got

regimeVars == <<libs, det, pc, loc, hmmFile, fpFile, rfFile, calls, outcome, pred>>
optVars == <<opt, slv>>
btVars == <<bt>>
restVars == <<fac, sig, risk, pipe>>
vars == <<libs, det, pc, loc, hmmFile, fpFile, rfFile, calls, outcome, pred, opt, slv, bt,
          fac, sig, risk, pipe>>

None == "None"
\* the components a specification leaves alone
RestIdle == fac = None /\ sig = None /\ risk = None /\ pipe = None

(***************************************************************************)
(* Bounds of the model.                                                    *)
(***************************************************************************)
MaxFits == 2        \* fit calls per behaviour

(***************************************************************************)
(* Program constants.                                                      *)
(***************************************************************************)
N_REGIMES == 4
TailRows == 10
HmmWeight == 70
RfWeight == 30

States == 0..(N_REGIMES - 1)
REGIME_LABELS == [i \in States |-> <<"Bull", "Bear", "High Vol", "Crisis">>[i + 1]]

Detectors == {"d1", "d2"}
RandomStates == {42, 7}

(***************************************************************************)
(* Feature matrices.  A row is one of a few row types; what the models do  *)
(* with a row depends only on its type:                                    *)
(*   Top(r)   the latent market condition the row most likely belongs to,  *)
(*   Alt(r)   the second most likely one,                                  *)
(*   Sure(r)  whether the posterior is concentrated on Top(r),             *)
(*   Rule(r)  the rule-based pseudo-label of the date (0..3).              *)
(* The latent conditions are named by the semantic index they should       *)
(* get: 0 Bull, 1 Bear, 2 High Vol, 3 Crisis.                              *)
(***************************************************************************)
RowTypes == {0, 1}
Top(r) == r % N_REGIMES
Alt(r) == (r + 1) % N_REGIMES
Sure(r) == (r % 2 = 0)
Rule(r) == (r + 2) % N_REGIMES

RECURSIVE Tabulated(_, _)
\* the function f over 0..n, evaluated once
Tabulated(f, n) == IF n = 0 THEN (0 :> f[0]) ELSE Tabulated(f, n - 1) @@ (n :> f[n])

RECURSIVE Listed(_, _)
\* the first n entries of a series, written out
Listed(series, n) == IF n = 0 THEN <<>> ELSE Append(Listed(series, n - 1), series[n])

\* _build_features output: TailRows + 1 rows, the first of type h, the others of type t
MkX(h, t) == [i \in 1..(TailRows + 1) |-> IF i = 1 THEN h ELSE t]
\* two matrices that differ in the first row only, and one with another tail
Data == {MkX(0, 0), MkX(1, 0), MkX(1, 1)}

\* X[-10:]
TailOf(X) == IF Len(X) <= TailRows THEN X
             ELSE [i \in 1..TailRows |-> X[Len(X) - TailRows + i]]

\* md5(tail bytes + shape): a digest of exactly the last rows and the shape
_compute_fingerprint(X) == <<TailOf(X), Len(X)>>

\* The numbering of the fitted states is whatever the EM iteration converges to
\* from the seeded initialisation: a function of random_state, fixed for a seed,
\* with no tie to the semantic labels.  In the model the fit seeded with 42
\* numbers the conditions in the semantic order and the fit seeded with 7
\* numbers them one further (condition c becomes state (c + 1) % n).
emOrder == [rs \in RandomStates |->
               [c \in States |-> (c + (IF rs = 42 THEN 0 ELSE 1)) % N_REGIMES]]

(***************************************************************************)
(* The fitted objects.                                                     *)
(*   GaussianHMM: which fit call built it, on what data, with which        *)
(*   random_state, and the numbering of its states (order[c] is the state  *)
(*   index of latent condition c).                                         *)
(*   RandomForestClassifier: which fit call built it and the class it      *)
(*   learned for each row type.  StandardScaler: which fit call built it.  *)
(***************************************************************************)
GaussianHMM(id, X, rs) == [fit |-> id, X |-> X, rs |-> rs, order |-> emOrder[rs]]

\* self.model.predict(X) for one row: the state of the most likely condition
HmmLabel(m, r) == m.order[Top(r)]

\* self.model.predict_proba(X) for one row, in percent
HmmProba(m, r) ==
    [s \in States |->
        IF Sure(r) THEN (IF s = m.order[Top(r)] THEN 100 ELSE 0)
        ELSE IF s = m.order[Top(r)] THEN 55
        ELSE IF s = m.order[Alt(r)] THEN 45
        ELSE 0]

\* y_blend = np.where(np.random.rand(len(y)) > 0.5, y, hmm_labels): each row gets
\* the rule label or the HMM label by an unseeded draw.  The forest learns, for
\* the rows of a type, the label the draw gave most of them: the model lets one
\* draw decide for all types (the rule labels win, or the HMM labels win).
RfLabelings(m) == {[r \in RowTypes |-> Rule(r)], [r \in RowTypes |-> HmmLabel(m, r)]}

\* rf_proba_aligned: column c holds the forest's probability of class c (c < n)
RfProbaAligned(rf, r) == [c \in States |-> IF rf.lab[r] = c THEN 100 ELSE 0]

\* blended = 0.70 * hmm_proba + 0.30 * rf_proba_aligned (in 1/10000)
Blended(m, rf, r) ==
    LET hmm_proba == Tabulated(HmmProba(m, r), N_REGIMES - 1)
        rf_proba_aligned == Tabulated(RfProbaAligned(rf, r), N_REGIMES - 1)
    IN  Tabulated([s \in States |-> HmmWeight * hmm_proba[s] + RfWeight * rf_proba_aligned[s]],
                  N_REGIMES - 1)

\* the position of the maximum counted from 1
ArgMaxFromOne(v) == 1 + (CHOOSE s \in States :
                           /\ \A u \in States : v[u] <= v[s]
                           /\ \A u \in States : u < s => v[u] < v[s])

\* np.argmax: the first index holding the maximum
ArgMax(v) == CHOOSE s \in States :
                /\ \A u \in States : v[u] <= v[s]
                /\ \A u \in States : u < s => v[u] < v[s]

\* line 210 without its scaler test
UsesEnsembleWithoutScaler(d) ==
    /\ det[d].use_ensemble
    /\ libs.sklearn
    /\ det[d].rf_model.fit # 0

\* the ensemble branch of predict is taken: line 210
UsesEnsemble(d) ==
    /\ det[d].use_ensemble
    /\ libs.sklearn
    /\ det[d].rf_model.fit # 0
    /\ det[d].scaler.fit # 0

\* lines 233-243: predict_proba, the HMM's state probabilities of each date
predict_proba(d, X) == [i \in 1..Len(X) |-> HmmProba(det[d].model, X[i])]

\* predict: the label of each date of X
PredictLabels(d, X) ==
    [i \in 1..Len(X) |->
        IF UsesEnsemble(d)
        THEN ArgMax(Blended(det[d].model, det[d].rf_model, X[i]))
        ELSE HmmLabel(det[d].model, X[i])]

\* run_pipeline.main, line 109: regime.reindex(market_df.index).ffill().bfill()
\* .fillna(0).  A date of the index the series does not have is NaN after the
\* reindex; NaN takes the last label before it, else the first label after it,
\* else 0.
NaNLabel == 0 - 1
Reindex(series, index) ==
    [i \in 1..Len(index) |-> IF index[i] \in DOMAIN series THEN series[index[i]] ELSE NaNLabel]
Ffill(series) ==
    [i \in 1..Len(series) |->
        IF \E j \in 1..i : series[j] # NaNLabel
        THEN series[CHOOSE j \in 1..i : series[j] # NaNLabel
                        /\ \A k \in (j + 1)..i : series[k] = NaNLabel]
        ELSE NaNLabel]
Bfill(series) ==
    [i \in 1..Len(series) |->
        IF \E j \in i..Len(series) : series[j] # NaNLabel
        THEN series[CHOOSE j \in i..Len(series) : series[j] # NaNLabel
                        /\ \A k \in i..(j - 1) : series[k] = NaNLabel]
        ELSE NaNLabel]
Fillna(series, value) ==
    [i \in 1..Len(series) |-> IF series[i] = NaNLabel THEN value ELSE series[i]]

\* market_df.index against the index of the features: returns keeps every date
\* of market_df (line 98 drops no row), so predict labels every date
MarketIndex(X) == [i \in 1..Len(X) |-> i]

\* the regime series of the result bundle
BundleRegime(labels, index) ==
    LET n == Len(index)
        reindexed == Listed(Reindex(labels, index), n)
        ffilled == Listed(Ffill(reindexed), n)
        bfilled == Listed(Bfill(ffilled), n)
    IN  Listed(Fillna(bfilled, 0), n)

(***************************************************************************)
(* Initial state: freshly constructed detectors, an empty cache directory. *)
(***************************************************************************)
\* absent values: no model (self.model is None), no classifier, no scaler, a
\* missing file; a fit number of 0 marks them
NoHmm == [fit |-> 0, X |-> <<>>, rs |-> 0, order |-> <<>>]
NoRf == [fit |-> 0, lab |-> <<>>]
NoScaler == [fit |-> 0]
NoFp == [fp |-> <<>>, fit |-> 0]
NoPred == [status |-> "none", X |-> <<>>, labels |-> <<>>, regime |-> <<>>,
           regime_proba |-> <<>>]
\* the import outcomes: everything installed, or one library missing
LibConfigs == {l \in [hmm : BOOLEAN, joblib : BOOLEAN, sklearn : BOOLEAN] :
                  Cardinality({k \in {"hmm", "joblib", "sklearn"} : ~l[k]}) <= 1}

NoLocals == [X |-> <<>>, fp |-> <<>>, cached_fp |-> <<>>, force_refit |-> FALSE, fit |-> 0]

RegimeInit ==
    /\ libs \in LibConfigs
    /\ det \in [Detectors -> [random_state : RandomStates, use_ensemble : BOOLEAN,
                              model : {NoHmm}, rf_model : {NoRf}, scaler : {NoScaler}]]
    /\ det["d1"].random_state = 42
    /\ pc = [d \in Detectors |-> "idle"]
    /\ loc = [d \in Detectors |-> NoLocals]
    /\ hmmFile = NoHmm
    /\ fpFile = NoFp
    /\ rfFile = NoRf
    /\ calls = 0
    /\ outcome = [d \in Detectors |-> "none"]
    /\ pred = [d \in Detectors |-> NoPred]

(***************************************************************************)
(* RegimeDetector.fit, one action per access to the shared cache files.    *)
(* What fit computes on the detector alone (the features, the fingerprint, *)
(* the two model fits) is part of the step that precedes it.               *)
(***************************************************************************)
\* fit has returned or raised: of its locals the model keeps the inputs, which
\* the caller passes to predict next
Returned(l) == [NoLocals EXCEPT !.X = l.X, !.fit = l.fit]

\* lines 168-195: the classifier and its scaler, trained on the blended labels
_fit_rf_ensemble(d, m, lab) ==
    [det[d] EXCEPT !.model = m,
                   !.rf_model = [fit |-> m.fit, lab |-> lab],
                   !.scaler = [fit |-> m.fit]]

\* line 156 without its library test
TrainsClassifierWithoutLibrary(d) == det[d].use_ensemble

\* line 156: the classifier is trained
TrainsClassifier(d) == det[d].use_ensemble /\ libs.sklearn

\* lines 146-160: the HMM fit, the classifier fit, and the test before the save
FitTrain(d, id, X) ==
    /\ LET m == GaussianHMM(id, X, det[d].random_state) IN
         IF TrainsClassifier(d)
         THEN \E lab \in RfLabelings(m) :
                 det' = [det EXCEPT ![d] = _fit_rf_ensemble(d, m, lab)]
         ELSE det' = [det EXCEPT ![d].model = m]
    /\ IF libs.joblib
       THEN /\ pc' = [pc EXCEPT ![d] = "dump_hmm"]
            /\ outcome' = [outcome EXCEPT ![d] = "running"]
       ELSE /\ pc' = [pc EXCEPT ![d] = "idle"]
            /\ outcome' = [outcome EXCEPT ![d] = "fitted"]

\* line 138 without its force_refit test
ConsultsCacheIgnoringForce(force) == libs.joblib

\* the cache is consulted: line 138
ConsultsCache(force) == ~force /\ libs.joblib

\* lines 131-139: the import check, the features, the fingerprint and the
\* read of the fingerprint file; with force_refit or without joblib, the fits.
\* A behaviour makes at most `fits` fit calls.
FitCallWithin(d, X, force, fits) ==
    /\ pc[d] = "idle"
    /\ calls < fits
    /\ calls' = calls + 1
    /\ IF ~libs.hmm
       THEN /\ outcome' = [outcome EXCEPT ![d] = "ImportError"]
            /\ loc' = [loc EXCEPT ![d] = Returned([X |-> X, fit |-> calls + 1])]
            /\ UNCHANGED <<pc, det>>
       ELSE /\ LET l == [X |-> X, fp |-> _compute_fingerprint(X),
                          cached_fp |-> IF ConsultsCache(force) /\ fpFile.fit # 0
                                        THEN fpFile.fp ELSE <<>>,
                          force_refit |-> force, fit |-> calls + 1]
                 IN loc' = [loc EXCEPT ![d] = IF libs.joblib THEN l ELSE Returned(l)]
            /\ IF ConsultsCache(force)
               THEN /\ pc' = [pc EXCEPT ![d] = "lookup"]
                    /\ outcome' = [outcome EXCEPT ![d] = "running"]
                    /\ UNCHANGED det
               ELSE FitTrain(d, calls + 1, X)
    /\ pred' = [pred EXCEPT ![d] = NoPred]
    /\ UNCHANGED <<libs, hmmFile, fpFile, rfFile>>

FitCall(d, X, force) == FitCallWithin(d, X, force, MaxFits)

\* line 140: the cache holds the model of this input
CacheHit(d) == loc[d].cached_fp = loc[d].fp /\ hmmFile.fit # 0

\* lines 140-141: the fingerprint comparison, the existence test and the load;
\* on a miss, the fits
FitLookup(d) ==
    /\ pc[d] = "lookup"
    /\ IF CacheHit(d)
       THEN /\ det' = [det EXCEPT ![d].model = hmmFile]
            /\ pc' = [pc EXCEPT ![d] = "load_rf"]
            /\ UNCHANGED outcome
       ELSE FitTrain(d, loc[d].fit, loc[d].X)
    /\ UNCHANGED <<libs, loc, hmmFile, fpFile, rfFile, calls, pred>>

\* lines 142-144: the classifier file, when there is one, and the return
FitLoadRf(d) ==
    /\ pc[d] = "load_rf"
    /\ det' = IF det[d].use_ensemble /\ libs.sklearn /\ rfFile.fit # 0
              THEN [det EXCEPT ![d].rf_model = rfFile]
              ELSE det
    /\ pc' = [pc EXCEPT ![d] = "idle"]
    /\ outcome' = [outcome EXCEPT ![d] = "loaded"]
    /\ loc' = [loc EXCEPT ![d] = Returned(loc[d])]
    /\ UNCHANGED <<libs, hmmFile, fpFile, rfFile, calls, pred>>

\* line 161: joblib.dump(self.model, self._hmm_path())
FitDumpHmm(d) ==
    /\ pc[d] = "dump_hmm"
    /\ hmmFile' = det[d].model
    /\ pc' = [pc EXCEPT ![d] = "write_fp"]
    /\ UNCHANGED <<libs, det, loc, fpFile, rfFile, calls, outcome, pred>>

\* line 162: self._fp_path().write_text(fp)
FitWriteFp(d) ==
    /\ pc[d] = "write_fp"
    /\ fpFile' = [fp |-> loc[d].fp, fit |-> loc[d].fit]
    /\ pc' = [pc EXCEPT ![d] = "dump_rf"]
    /\ UNCHANGED <<libs, det, loc, hmmFile, rfFile, calls, outcome, pred>>

\* lines 163-166: the classifier file, when the detector holds one, and the return
FitDumpRf(d) ==
    /\ pc[d] = "dump_rf"
    /\ rfFile' = IF det[d].rf_model.fit # 0 THEN det[d].rf_model ELSE rfFile
    /\ pc' = [pc EXCEPT ![d] = "idle"]
    /\ outcome' = [outcome EXCEPT ![d] = "fitted"]
    /\ loc' = [loc EXCEPT ![d] = Returned(loc[d])]
    /\ UNCHANGED <<libs, det, hmmFile, fpFile, calls, pred>>

\* lines 161-164: a write that raises (or a killed process) ends fit between
\* two of its writes; nothing is rolled back
FitInterrupted(d) ==
    /\ pc[d] \in {"write_fp", "dump_rf"}
    /\ pc' = [pc EXCEPT ![d] = "idle"]
    /\ outcome' = [outcome EXCEPT ![d] = "interrupted"]
    /\ loc' = [loc EXCEPT ![d] = Returned(loc[d])]
    /\ UNCHANGED <<libs, det, hmmFile, fpFile, rfFile, calls, pred>>

\* lines 199-229: predict on the inputs of the detector's last fit call, as the
\* pipeline calls it (the caller of a fit that raised may go on to predict);
\* without a fitted model self.model.predict raises (line 208: self.model is
\* None, and predict tests no import).  With the labels, line 109 of main; with
\* `proba`, also the predict_proba call of main's line 112.
Predicted(d, proba) ==
    IF det[d].model.fit = 0
    THEN [status |-> "AttributeError", X |-> loc[d].X, labels |-> <<>>,
          regime |-> <<>>, regime_proba |-> <<>>]
    ELSE LET labels == Listed(PredictLabels(d, loc[d].X), Len(loc[d].X))
         IN [status |-> "ok", X |-> loc[d].X, labels |-> labels,
             regime |-> BundleRegime(labels, MarketIndex(loc[d].X)),
             regime_proba |-> IF proba THEN predict_proba(d, loc[d].X) ELSE <<>>]

Predict(d) ==
    /\ pc[d] = "idle"
    /\ loc[d].fit # 0
    /\ pred' = [pred EXCEPT ![d] = Predicted(d, FALSE)]
    /\ UNCHANGED <<libs, det, pc, loc, hmmFile, fpFile, rfFile, calls, outcome>>

\* main, lines 108-112: predict, the reindex, and predict_proba, on a fitted detector
MainPredict(d) ==
    /\ pc[d] = "idle"
    /\ loc[d].fit # 0
    /\ pred' = [pred EXCEPT ![d] = Predicted(d, TRUE)]
    /\ UNCHANGED <<libs, det, pc, loc, hmmFile, fpFile, rfFile, calls, outcome>>

RegimeNext ==
    \/ \E d \in Detectors, X \in Data, force \in BOOLEAN : FitCall(d, X, force)
    \/ \E d \in Detectors : FitLookup(d)
    \/ \E d \in Detectors : FitLoadRf(d)
    \/ \E d \in Detectors : FitDumpHmm(d)
    \/ \E d \in Detectors : FitWriteFp(d)
    \/ \E d \in Detectors : FitDumpRf(d)
    \/ \E d \in Detectors : FitInterrupted(d)
    \/ \E d \in Detectors : Predict(d)

\* one fit call at a time: a fit is called when no other fit is running
SerialFitCall(d, X, force) ==
    /\ \A e \in Detectors : pc[e] = "idle"
    /\ FitCall(d, X, force)

RegimeNextSerial ==
    \/ \E d \in Detectors, X \in Data, force \in BOOLEAN : SerialFitCall(d, X, force)
    \/ \E d \in Detectors : FitLookup(d)
    \/ \E d \in Detectors : FitLoadRf(d)
    \/ \E d \in Detectors : FitDumpHmm(d)
    \/ \E d \in Detectors : FitWriteFp(d)
    \/ \E d \in Detectors : FitDumpRf(d)
    \/ \E d \in Detectors : FitInterrupted(d)
    \/ \E d \in Detectors : Predict(d)

(***************************************************************************)
(* Claims on the model cache.                                              *)
(***************************************************************************)
CacheFiles == <<hmmFile, fpFile, rfFile>>

\* C1: at every instant the cache holds a fingerprint and an HMM model that come
\* from the same fit: when both files exist, the fit that wrote the fingerprint
\* is the fit that wrote the model.
C1_FingerprintMatchesModel ==
    (hmmFile.fit # 0 /\ fpFile.fit # 0) => hmmFile.fit = fpFile.fit

\* C2: two fits that both train and save the HMM, the fingerprint and the
\* classifier: once both have returned, the three files were written by the same
\* one of the two.
BothFitsSavedAll ==
    /\ libs.joblib /\ libs.sklearn
    /\ \A d \in Detectors :
          /\ pc[d] = "idle"
          /\ outcome[d] = "fitted"
          /\ det[d].use_ensemble

C2_FilesFromOneFit ==
    BothFitsSavedAll => (hmmFile.fit = fpFile.fit /\ rfFile.fit = hmmFile.fit)

\* C3: with the persistence library available, fit takes the cache (loads the
\* HMM file, builds no model, writes no file) exactly when force_refit is False,
\* the persisted fingerprint equals the fingerprint of the current features and
\* the HMM file exists; in every other case it fits a new model and, when it
\* returns, the HMM file and the fingerprint file hold that fit's model and
\* fingerprint.
FingerprintPersisted(X) == fpFile.fit # 0 /\ fpFile.fp = _compute_fingerprint(X)

C3_TakesCacheOnlyOnMatch ==
    \A d \in Detectors :
        /\ pc[d] = "load_rf" =>
              /\ ~loc[d].force_refit
              /\ FingerprintPersisted(loc[d].X)
              /\ hmmFile.fit # 0
              /\ det[d].model = hmmFile
              /\ det[d].model.fit # loc[d].fit
        /\ pc[d] = "dump_hmm" =>
              /\ \/ loc[d].force_refit
                 \/ ~FingerprintPersisted(loc[d].X)
                 \/ hmmFile.fit = 0
              /\ det[d].model.fit = loc[d].fit
              /\ det[d].model.X = loc[d].X
        /\ (pc[d] = "idle" /\ outcome[d] = "fitted" /\ libs.joblib /\ loc[d].fit = calls) =>
              /\ hmmFile = det[d].model
              /\ hmmFile.fit = calls
              /\ fpFile = [fp |-> _compute_fingerprint(loc[d].X), fit |-> calls]

C3_CacheHitWritesNothing ==
    \A d \in Detectors :
        (pc[d] \in {"lookup", "load_rf"} /\ pc'[d] \in {"load_rf", "idle"})
            => UNCHANGED CacheFiles

C3_ForcedRefitSkipsCache ==
    \A d \in Detectors :
        (pc[d] = "idle" /\ pc'[d] # "idle" /\ libs.joblib)
            => (pc'[d] = "lookup" <=> ~loc'[d].force_refit)

C3_CacheDecision ==
    /\ []C3_TakesCacheOnlyOnMatch
    /\ [][C3_CacheHitWritesNothing /\ C3_ForcedRefitSkipsCache]_vars

\* a fit has returned after loading the cached model
C3_Witness == \E d \in Detectors : pc[d] = "idle" /\ outcome[d] = "loaded"

\* C4: the semantic label predict emits for a date does not depend on how the
\* fitted model numbers its states: two detectors whose HMMs were fitted on the
\* same features, predicting the same dates from the HMM alone, emit the same
\* labels.
HmmOnlyPrediction(d) == pc[d] = "idle" /\ pred[d].status = "ok" /\ ~UsesEnsemble(d)

C4_LabelsIndependentOfNumbering ==
    \A d \in Detectors, e \in Detectors :
        (/\ HmmOnlyPrediction(d) /\ HmmOnlyPrediction(e)
         /\ det[d].model.X = det[e].model.X
         /\ pred[d].X = pred[e].X)
        => \A i \in 1..Len(pred[d].X) :
              REGIME_LABELS[pred[d].labels[i]] = REGIME_LABELS[pred[e].labels[i]]

\* C12: every value of the series predict returns, on the HMM-only path and on
\* the ensemble path, and every value of the regime series of the result bundle
\* after its reindex and fill, is one of 0, 1, 2, 3.
C12_LabelsAreRegimes ==
    \A d \in Detectors :
        pred[d].status = "ok" =>
            /\ Len(pred[d].labels) = Len(pred[d].X)
            /\ Len(pred[d].regime) = Len(pred[d].X)
            /\ \A i \in 1..Len(pred[d].X) :
                  /\ pred[d].labels[i] \in {0, 1, 2, 3}
                  /\ pred[d].regime[i] \in {0, 1, 2, 3}

\* one detector has predicted on the ensemble path, the other from the HMM alone
C12_Witness ==
    \E d \in Detectors, e \in Detectors :
        /\ pc[d] = "idle" /\ pred[d].status = "ok" /\ UsesEnsemble(d)
        /\ pc[e] = "idle" /\ pred[e].status = "ok" /\ ~UsesEnsemble(e)

\* C13: in predict, when the ensemble is enabled and a fitted classifier and its
\* scaler are present, the label of each date is the arg-max over the 4 states of
\* 0.70 times the HMM's state probability plus 0.30 times the classifier's
\* probability of the same index; when any of these is missing the label is the
\* HMM's hard label.
C13_BlendOrHardLabel ==
    \A d \in Detectors :
        (pc[d] = "idle" /\ pred[d].status = "ok") =>
            \A i \in 1..Len(pred[d].X) :
                LET r == pred[d].X[i]
                    label == pred[d].labels[i]
                    score(s) == 70 * HmmProba(det[d].model, r)[s]
                                + 30 * (IF det[d].rf_model.lab[r] = s THEN 100 ELSE 0)
                IN IF det[d].use_ensemble /\ det[d].rf_model.fit # 0 /\ det[d].scaler.fit # 0
                   THEN \A s \in 0..3 : score(s) <= score(label)
                   ELSE label = HmmLabel(det[d].model, r)

\* one detector has predicted a label the blend moved away from the HMM's hard
\* label; another, holding a loaded classifier without a scaler, has predicted
C13_Witness ==
    \E d \in Detectors, e \in Detectors :
        /\ pc[d] = "idle" /\ pred[d].status = "ok" /\ UsesEnsemble(d)
        /\ \E i \in 1..Len(pred[d].X) :
              pred[d].labels[i] # HmmLabel(det[d].model, pred[d].X[i])
        /\ pc[e] = "idle" /\ pred[e].status = "ok"
        /\ det[e].use_ensemble /\ det[e].rf_model.fit # 0 /\ det[e].scaler.fit = 0

\* C14: when the HMM library is unavailable, fit and predict both fail with
\* ImportError, whatever the detector's state, and the failed fit leaves the
\* detector's fields and the cache files unchanged.
C14_MissingHmmIsImportError ==
    ~libs.hmm =>
        /\ \A d \in Detectors :
              /\ outcome[d] \in {"none", "ImportError"}
              /\ pred[d].status \in {"none", "ImportError"}
              /\ det[d].model = NoHmm /\ det[d].rf_model = NoRf /\ det[d].scaler = NoScaler
        /\ hmmFile = NoHmm /\ fpFile = NoFp /\ rfFile = NoRf

\* C15: when the classifier library is unavailable, fit with use_ensemble=True
\* raises nothing, trains and persists no classifier, and predict returns
\* exactly the HMM's hard labels.
C15_MissingSklearnDisablesEnsemble ==
    ~libs.sklearn =>
        /\ \A d \in Detectors :
              /\ outcome[d] # "ImportError"
              /\ det[d].rf_model = NoRf /\ det[d].scaler = NoScaler
              /\ (pc[d] = "idle" /\ pred[d].status = "ok") =>
                    \A i \in 1..Len(pred[d].X) :
                        pred[d].labels[i] = HmmLabel(det[d].model, pred[d].X[i])
        /\ rfFile = NoRf

\* without the classifier library, a detector built with use_ensemble=True has
\* fitted, saved its HMM and predicted
C15_Witness ==
    /\ ~libs.sklearn
    /\ \E d \in Detectors :
          /\ det[d].use_ensemble
          /\ pc[d] = "idle" /\ outcome[d] = "fitted"
          /\ hmmFile.fit # 0
          /\ pred[d].status = "ok"

OtherIdle == opt = None /\ slv = None /\ bt = None /\ RestIdle

Init == RegimeInit /\ OtherIdle
Next == RegimeNext /\ UNCHANGED <<opt, slv, bt, fac, sig, risk, pipe>>
Spec == Init /\ [][Next]_vars

\* the detector with its fit calls serialised
NextSerial == RegimeNextSerial /\ UNCHANGED <<opt, slv, bt, fac, sig, risk, pipe>>
SpecSerial == Init /\ [][NextSerial]_vars

\* the detector as main drives it: serial fits, then predict with predict_proba
NextBundle ==
    /\ \/ \E d \in Detectors, X \in Data, force \in BOOLEAN : SerialFitCall(d, X, force)
       \/ \E d \in Detectors : FitLookup(d)
       \/ \E d \in Detectors : FitLoadRf(d)
       \/ \E d \in Detectors : FitDumpHmm(d)
       \/ \E d \in Detectors : FitWriteFp(d)
       \/ \E d \in Detectors : FitDumpRf(d)
       \/ \E d \in Detectors : FitInterrupted(d)
       \/ \E d \in Detectors : MainPredict(d)
    /\ UNCHANGED <<opt, slv, bt, fac, sig, risk, pipe>>
SpecBundle == Init /\ [][NextBundle]_vars

\* two detectors built with the same arguments
TwinInit ==
    /\ libs \in LibConfigs
    /\ det \in [Detectors -> [random_state : RandomStates, use_ensemble : BOOLEAN,
                              model : {NoHmm}, rf_model : {NoRf}, scaler : {NoScaler}]]
    /\ det["d1"] = det["d2"]
    /\ pc = [d \in Detectors |-> "idle"]
    /\ loc = [d \in Detectors |-> NoLocals]
    /\ hmmFile = NoHmm
    /\ fpFile = NoFp
    /\ rfFile = NoRf
    /\ calls = 0
    /\ outcome = [d \in Detectors |-> "none"]
    /\ pred = [d \in Detectors |-> NoPred]

InitTwin == TwinInit /\ OtherIdle
SpecTwin == InitTwin /\ [][NextSerial]_vars

\* every fit is called with force_refit=True: no fit reads the cache
NextForced ==
    /\ \/ \E d \in Detectors, X \in Data : SerialFitCall(d, X, TRUE)
       \/ \E d \in Detectors : FitDumpHmm(d)
       \/ \E d \in Detectors : FitWriteFp(d)
       \/ \E d \in Detectors : FitDumpRf(d)
       \/ \E d \in Detectors : FitInterrupted(d)
       \/ \E d \in Detectors : Predict(d)
    /\ UNCHANGED <<opt, slv, bt, fac, sig, risk, pipe>>
SpecForced == InitTwin /\ [][NextForced]_vars

\* one more fit call, one at a time, all on the same features
ChainFits == MaxFits + 1
NextChain ==
    /\ \/ \E d \in Detectors, force \in BOOLEAN :
             /\ \A e \in Detectors : pc[e] = "idle"
             /\ FitCallWithin(d, MkX(1, 0), force, ChainFits)
       \/ \E d \in Detectors : FitLookup(d)
       \/ \E d \in Detectors : FitLoadRf(d)
       \/ \E d \in Detectors : FitDumpHmm(d)
       \/ \E d \in Detectors : FitWriteFp(d)
       \/ \E d \in Detectors : FitDumpRf(d)
       \/ \E d \in Detectors : FitInterrupted(d)
       \/ \E d \in Detectors : Predict(d)
    /\ UNCHANGED <<opt, slv, bt, fac, sig, risk, pipe>>
SpecChain == Init /\ [][NextChain]_vars

\* C25: a cache hit is equivalent to a fresh fit: for the same input and the
\* same configuration, predict on a detector whose fit loaded the cached
\* artifacts returns the same labels as predict on the detector that has just
\* fitted them (with use_ensemble=True the blend is applied in both).
C25_CacheHitEqualsFreshFit ==
    \A d \in Detectors, e \in Detectors :
        (/\ pc[d] = "idle" /\ outcome[d] = "fitted"
         /\ pc[e] = "idle" /\ outcome[e] = "loaded"
         /\ det[e].model = det[d].model
         /\ det[e].random_state = det[d].random_state
         /\ det[e].use_ensemble = det[d].use_ensemble
         /\ pred[d].status = "ok" /\ pred[e].status = "ok"
         /\ pred[d].X = pred[e].X)
        => pred[d].labels = pred[e].labels

\* C26: fit with force_refit=False never reuses a model fitted on other input or
\* under another configuration: at a cache hit the persisted model was fitted on
\* a feature matrix equal to the current one in every row, and with the
\* detector's random_state.
C26_CacheHitOnSameInput ==
    \A d \in Detectors :
        pc[d] = "load_rf" =>
            /\ det[d].model.X = loc[d].X
            /\ det[d].model.rs = det[d].random_state

\* C27: after any sequence of fit calls sharing the cache key, the classifier
\* and the scaler predict blends with were produced by the same fit as the HMM
\* in use.
C27_BlendPartsFromOneFit ==
    \A d \in Detectors :
        (pc[d] = "idle" /\ pred[d].status = "ok" /\ UsesEnsemble(d)) =>
            /\ det[d].rf_model.fit = det[d].model.fit
            /\ det[d].scaler.fit = det[d].model.fit

\* C28: for every date, the regime label of the result bundle is the arg-max of
\* the regime_proba row of the bundle for that date.
C28_LabelIsArgMaxOfProba ==
    \A d \in Detectors :
        (pc[d] = "idle" /\ pred[d].status = "ok") =>
            \A i \in 1..Len(pred[d].X) : \A s \in States :
                pred[d].regime_proba[i][s] <= pred[d].regime_proba[i][pred[d].regime[i]]

\* C29: two detectors built with the same random_state and fitted with
\* force_refit=True on the same input produce the same classifier training
\* labels and the same predict output.
C29_FitIsDeterministic ==
    \A d \in Detectors, e \in Detectors :
        (/\ pc[d] = "idle" /\ outcome[d] = "fitted"
         /\ pc[e] = "idle" /\ outcome[e] = "fitted"
         /\ det[d].random_state = det[e].random_state
         /\ det[d].use_ensemble = det[e].use_ensemble
         /\ det[d].model.X = det[e].model.X)
        => /\ det[d].rf_model.lab = det[e].rf_model.lab
           /\ (pred[d].status = "ok" /\ pred[e].status = "ok" /\ pred[d].X = pred[e].X)
                 => pred[d].labels = pred[e].labels

(***************************************************************************)
(* PortfolioOptimizer.optimize_by_regime.                                  *)
(* Weights are exact rationals: a raw weight is an integer count of        *)
(* 1/(100 * Scale), where Scale is divisible by every bucket size and      *)
(* every asset count of the model; a normalised row w / w.sum() is the     *)
(* pair [num, den] of the raw weights and their sum (den = 0: the          *)
(* division 0/0, a row of NaN).                                            *)
(***************************************************************************)
MaxAssets == 8      \* columns of the price matrix
MaxBucket == 6      \* longest index list of a bucket
SmallBucket == 2    \* the other list lengths are 0..SmallBucket

Max(a, b) == IF a >= b THEN a ELSE b
Min(a, b) == IF a <= b THEN a ELSE b

RECURSIVE Gcd(_, _)
Gcd(a, b) == IF b = 0 THEN a ELSE Gcd(b, a % b)
RECURSIVE LcmUpTo(_)
LcmUpTo(k) == IF k <= 1 THEN 1 ELSE LET l == LcmUpTo(k - 1) IN (l * k) \div Gcd(l, k)
Scale == LcmUpTo(Max(MaxAssets, MaxBucket))
One == 100 * Scale

RECURSIVE SumTo(_, _)
\* f[0] + ... + f[k - 1]
SumTo(f, k) == IF k = 0 THEN 0 ELSE f[k - 1] + SumTo(f, k - 1)

Buckets == <<"equity", "bonds", "gold", "cash">>

\* lines 53-59, in percent
_default_regime_weights ==
    [r \in 0..3 |->
        CASE r = 0 -> [equity |-> 70, bonds |-> 20, gold |-> 5, cash |-> 5]
          [] r = 1 -> [equity |-> 30, bonds |-> 50, gold |-> 10, cash |-> 10]
          [] r = 2 -> [equity |-> 40, bonds |-> 35, gold |-> 15, cash |-> 10]
          [] r = 3 -> [equity |-> 20, bonds |-> 20, gold |-> 30, cash |-> 30]]

\* lines 185-186: self._regime_weights.get(regime, self._regime_weights[0])
regime_weights(r) ==
    IF r \in DOMAIN _default_regime_weights
    THEN _default_regime_weights[r] ELSE _default_regime_weights[0]

\* line 211: sum(1 for i in indices if i < n)
CountValid(indices, n) == Cardinality({k \in 1..Len(indices) : indices[k] < n})

\* lines 208-214 for one bucket: every listed index below n is set (not added)
\* to pct / max(count, 1)
AssignBucket(w, indices, pct, n) ==
    [i \in 0..(n - 1) |->
        IF \E k \in 1..Len(indices) : indices[k] = i
        THEN (pct * Scale) \div Max(CountValid(indices, n), 1)
        ELSE w[i]]

RECURSIVE AssignFrom(_, _, _, _, _)
\* lines 206-214: the buckets in the order of the table row
AssignFrom(k, w, alloc, ac, n) ==
    IF k > Len(Buckets) THEN w
    ELSE AssignFrom(k + 1, AssignBucket(w, ac[Buckets[k]], alloc[Buckets[k]], n),
                    alloc, ac, n)

Zeros(n) == [i \in 0..(n - 1) |-> 0]
Uniform(n) == [i \in 0..(n - 1) |-> One \div n]

\* lines 204-214: the weights assigned from the buckets, before the fallback
Assigned(n, given, ac, regime) ==
    LET r == Min(regime, 3)
        alloc == regime_weights(r)
    IN IF given THEN AssignFrom(1, Zeros(n), alloc, ac, n) ELSE Zeros(n)

\* line 215 with the comparison dropped: the assigned weights are kept
NeverFallsBack(w, n) == FALSE

\* line 215 with another threshold: w.sum() < 0.9
FallsBackBelow90(w, n) == 100 * SumTo(w, n) < 90 * One

\* line 215: w.sum() < 0.99
FallsBack(w, n) == 100 * SumTo(w, n) < 99 * One

\* line 217: w / w.sum()
Normalise(w, n) == [num |-> w, den |-> SumTo(w, n)]

\* lines 203-218 for one date
WeightRow(n, given, ac, regime) ==
    LET a == Assigned(n, given, ac, regime)
        w == IF FallsBack(a, n) THEN Uniform(n) ELSE a
    IN [assigned |-> a, uniform |-> FallsBack(a, n), row |-> Normalise(w, n)]

\* run_pipeline.main, lines 118-123
MainAssetMap(n) ==
    [equity |-> [k \in 1..Min(3, n) |-> k - 1],
     bonds |-> SelectSeq(<<2, 3>>, LAMBDA i : i < n),
     gold |-> SelectSeq(<<4>>, LAMBDA i : i < n),
     cash |-> <<>>]

\* run_pipeline.main, lines 126-130: each row divided by its sum, a zero sum
\* replaced by 1
MainNormalise(row, n) ==
    IF row.den = 0 THEN row
    ELSE IF SumTo(row.num, n) = 0 THEN row
    ELSE [num |-> row.num, den |-> SumTo(row.num, n)]

\* asset-class maps: the four lists laid out one after the other, each list a
\* run of consecutive indices that may start on the last index of the list
\* before it (an asset listed in two buckets)
Run(lo, len) == [k \in 1..len |-> lo + k - 1]
BucketLens == (0..SmallBucket) \cup {MaxBucket}
ChainMap(le, lb, lg, lc, o1, o2, o3) ==
    LET b0 == le - o1
        g0 == b0 + lb - o2
        c0 == g0 + lg - o3
    IN [equity |-> Run(0, le), bonds |-> Run(b0, lb), gold |-> Run(g0, lg),
        cash |-> Run(c0, lc)]
AssetMaps ==
    {ChainMap(le, lb, lg, lc, o1, o2, o3) :
        <<le, lb, lg, lc, o1, o2, o3>> \in
            {t \in BucketLens \X BucketLens \X BucketLens \X BucketLens
                   \X {0, 1} \X {0, 1} \X {0, 1} :
                /\ t[5] <= t[1]
                /\ t[6] <= t[2]
                /\ t[7] <= t[3]}}
NoMap == [equity |-> <<>>, bonds |-> <<>>, gold |-> <<>>, cash |-> <<>>]

\* regime values of a date: the four labels and values outside them
RegimeInputs == (0 - 1)..N_REGIMES

NoRow == [assigned |-> <<>>, uniform |-> FALSE, row |-> [num |-> <<>>, den |-> 0]]

\* the arguments of a call: the number of columns and the asset-class map
\* (none given, one of the family, or the one main builds)
OptInit ==
    \E n \in 1..MaxAssets :
        \/ \E ac \in AssetMaps :
              opt = [n |-> n, caller |-> "api", given |-> TRUE, ac |-> ac,
                     dated |-> FALSE, regime |-> 0, out |-> NoRow, bundle |-> NoRow.row]
        \/ opt = [n |-> n, caller |-> "api", given |-> FALSE, ac |-> NoMap,
                  dated |-> FALSE, regime |-> 0, out |-> NoRow, bundle |-> NoRow.row]
        \/ opt = [n |-> n, caller |-> "main", given |-> TRUE, ac |-> MainAssetMap(n),
                  dated |-> FALSE, regime |-> 0, out |-> NoRow, bundle |-> NoRow.row]

\* optimize_by_regime, lines 203-218: the weight row of a date whose regime is r
OptimizeDate(r) ==
    /\ opt.caller = "api"
    /\ opt' = [opt EXCEPT !.dated = TRUE, !.regime = r,
                          !.out = WeightRow(opt.n, opt.given, opt.ac, r)]
    /\ UNCHANGED <<libs, det, pc, loc, hmmFile, fpFile, rfFile, calls, outcome, pred, slv, bt, fac, sig, risk, pipe>>

\* main, lines 124-130: the same row, then main's normalisation of it
PipelineDate(r) ==
    /\ opt.caller = "main"
    /\ LET o == WeightRow(opt.n, opt.given, opt.ac, r) IN
         opt' = [opt EXCEPT !.dated = TRUE, !.regime = r, !.out = o,
                            !.bundle = MainNormalise(o.row, opt.n)]
    /\ UNCHANGED <<libs, det, pc, loc, hmmFile, fpFile, rfFile, calls, outcome, pred, slv, bt, fac, sig, risk, pipe>>

RegimeIdle ==
    /\ libs = [hmm |-> TRUE, joblib |-> TRUE, sklearn |-> TRUE]
    /\ det = [d \in Detectors |-> [random_state |-> 42, use_ensemble |-> TRUE,
                                  model |-> NoHmm, rf_model |-> NoRf, scaler |-> NoScaler]]
    /\ pc = [d \in Detectors |-> "idle"]
    /\ loc = [d \in Detectors |-> NoLocals]
    /\ hmmFile = NoHmm /\ fpFile = NoFp /\ rfFile = NoRf
    /\ calls = 0
    /\ outcome = [d \in Detectors |-> "none"]
    /\ pred = [d \in Detectors |-> NoPred]

InitOpt == RegimeIdle /\ OptInit /\ slv = None /\ bt = None /\ RestIdle
NextOpt ==
    \/ \E r \in RegimeInputs : OptimizeDate(r)
    \/ \E r \in States : PipelineDate(r)
SpecOpt == InitOpt /\ [][NextOpt]_vars

(***************************************************************************)
(* Claims on optimize_by_regime.                                           *)
(***************************************************************************)
\* a point of the simplex: a defined row, every entry in [0, 1], sum 1
OnSimplex(row, n) ==
    /\ row.den > 0
    /\ \A i \in 0..(n - 1) : 0 <= row.num[i] /\ row.num[i] <= row.den
    /\ SumTo(row.num, n) = row.den

\* C5: for every regime value (also outside 0..3) and every asset-class map,
\* each row optimize_by_regime returns, and each row of the weights main puts
\* in the result bundle, sums to 1 and has every entry in [0, 1].
C5_RowsOnSimplex ==
    opt.dated =>
        /\ OnSimplex(opt.out.row, opt.n)
        /\ opt.caller = "main" => OnSimplex(opt.bundle, opt.n)

\* a row built from the bucket weights for a regime value outside 0..3
C5_Witness == opt.dated /\ opt.regime \notin States /\ ~opt.out.uniform

\* the equal split of every bucket an asset is listed in: the sum, over the
\* buckets, of pct / count for each time the asset is listed
EqualSplit(i, n, ac, alloc) ==
    LET part(b) == Cardinality({k \in 1..Len(ac[b]) : ac[b][k] = i})
                     * ((alloc[b] * Scale) \div Max(CountValid(ac[b], n), 1))
    IN part("equity") + part("bonds") + part("gold") + part("cash")

\* C7: on every date without the uniform fallback, each bucket's target is split
\* equally across the assets assigned to the bucket: before the renormalisation
\* an asset holds its equal part of every bucket that lists it, also when two
\* buckets list it.
C7_BucketsSplitEqually ==
    (opt.dated /\ opt.given /\ ~opt.out.uniform) =>
        \A i \in 0..(opt.n - 1) :
            opt.out.assigned[i] =
                EqualSplit(i, opt.n, opt.ac, regime_weights(Min(opt.regime, 3)))

\* C8: on every date at which the weights assigned from the buckets total less
\* than 0.99, every asset gets the weight 1/n.
AssignedBelow99 == 100 * SumTo(opt.out.assigned, opt.n) < 99 * One

C8_UniformBelow99 ==
    (opt.dated /\ AssignedBelow99) =>
        /\ opt.out.row.den > 0
        /\ \A i \in 0..(opt.n - 1) : opt.out.row.num[i] * opt.n = opt.out.row.den

\* a map was given, part of the targets was assigned, and the total fell short
C8_Witness ==
    /\ opt.dated /\ opt.given /\ AssignedBelow99
    /\ SumTo(opt.out.assigned, opt.n) > 0

(***************************************************************************)
(* The convex solvers: mean_variance, min_volatility, max_sharpe,          *)
(* black_litterman, cvar_minimize.  The solve itself is the library's: its *)
(* outcome is no solution (w.value is None) or a vector that satisfies the *)
(* constraints handed to it.  Entries are multiples of 1/Ticks.            *)
(***************************************************************************)
MaxSolverN == 3     \* assets of a solver call
Ticks == 4          \* a solution entry is a multiple of 1/Ticks
MaxShort == 2       \* entries without the long-only bound lie in
                    \* -MaxShort/Ticks .. 1 + MaxShort/Ticks

Solvers == {"mean_variance", "min_volatility", "max_sharpe", "black_litterman",
            "cvar_minimize"}

\* the constraint w >= 0 is part of the problem: long_only (lines 102, 124, 174),
\* the nonneg variable of max_sharpe (line 140), long_only=True passed by
\* black_litterman (line 162)
NonNegative(fn, long_only) ==
    CASE fn = "max_sharpe" -> TRUE
      [] fn = "black_litterman" -> TRUE
      [] OTHER -> long_only

\* prob.solve: the vectors with cp.sum(w) == 1 (and w >= 0)
Solutions(n, nonneg) ==
    {v \in [0..(n - 1) -> (0 - MaxShort)..(Ticks + MaxShort)] :
        /\ SumTo(v, n) = Ticks
        /\ nonneg => \A i \in 0..(n - 1) : v[i] >= 0}

\* np.clip(w.value, 0, 1)
Clip(v, n) == [i \in 0..(n - 1) |-> Max(0, Min(v[i], Ticks))]

\* lines 106-108, 128-130, 144-147, 181-183: what the solver function returns
SolverReturn(fn, n, solved, v) ==
    IF ~solved THEN [num |-> [i \in 0..(n - 1) |-> 1], den |-> n]
    ELSE IF fn = "max_sharpe"
         THEN [num |-> Clip(v, n), den |-> SumTo(Clip(v, n), n)]
         ELSE [num |-> Clip(v, n), den |-> Ticks]

NoCall == [fn |-> "none", n |-> 0, long_only |-> TRUE, status |-> "none",
           solved |-> FALSE, value |-> <<>>, result |-> [num |-> <<>>, den |-> 0]]

\* a solver without cvxpy: lines 95-96, 119-120, 137-138, 167-168
SolveWithoutCvxpy(fn, n) ==
    /\ slv' = [NoCall EXCEPT !.fn = fn, !.n = n, !.status = "ImportError"]
    /\ UNCHANGED <<libs, det, pc, loc, hmmFile, fpFile, rfFile, calls, outcome, pred, opt, bt, fac, sig, risk, pipe>>

\* a solver call whose solve yields no solution
SolveFails(fn, n, long_only) ==
    /\ slv' = [NoCall EXCEPT !.fn = fn, !.n = n, !.long_only = long_only,
                             !.status = "returned",
                             !.result = SolverReturn(fn, n, FALSE, <<>>)]
    /\ UNCHANGED <<libs, det, pc, loc, hmmFile, fpFile, rfFile, calls, outcome, pred, opt, bt, fac, sig, risk, pipe>>

\* a solver call whose solve yields the vector v
Solve(fn, n, long_only, v) ==
    /\ v \in Solutions(n, NonNegative(fn, long_only))
    /\ slv' = [fn |-> fn, n |-> n, long_only |-> long_only, status |-> "returned",
               solved |-> TRUE, value |-> v, result |-> SolverReturn(fn, n, TRUE, v)]
    /\ UNCHANGED <<libs, det, pc, loc, hmmFile, fpFile, rfFile, calls, outcome, pred, opt, bt, fac, sig, risk, pipe>>

\* long_only is an argument of mean_variance, min_volatility and cvar_minimize
LongOnlyArgs(fn) == IF fn \in {"max_sharpe", "black_litterman"} THEN {TRUE} ELSE BOOLEAN

OptIdle ==
    opt = [n |-> 1, caller |-> "none", given |-> FALSE, ac |-> NoMap,
           dated |-> FALSE, regime |-> 0, out |-> NoRow, bundle |-> NoRow.row]

InitSolve == RegimeIdle /\ OptIdle /\ slv = NoCall /\ bt = None /\ RestIdle
NextSolve ==
    \/ \E fn \in Solvers, n \in 1..MaxSolverN : SolveWithoutCvxpy(fn, n)
    \/ \E fn \in Solvers, n \in 1..MaxSolverN : \E lo \in LongOnlyArgs(fn) :
          SolveFails(fn, n, lo)
    \/ \E fn \in Solvers, n \in 1..MaxSolverN : \E lo \in LongOnlyArgs(fn) :
          \E v \in Solutions(n, NonNegative(fn, lo)) : Solve(fn, n, lo, v)
SpecSolve == InitSolve /\ [][NextSolve]_vars

\* C6: every convex solver returns a point of the simplex whatever the solve
\* yields: equal weights without a solution, and otherwise entries in [0, 1]
\* that sum to 1, also with long_only=False.
C6_SolversReturnSimplex ==
    slv.status = "returned" =>
        /\ OnSimplex(slv.result, slv.n)
        /\ ~slv.solved => \A i \in 0..(slv.n - 1) : slv.result.num[i] * slv.n = slv.result.den

(***************************************************************************)
(* Backtester.run.                                                         *)
(* Prices enter through their daily returns (prices are strictly positive, *)
(* so every return is above -100%).  An asset return is a multiple of      *)
(* 1/RetDen, the cost-plus-slippage rate too; a normalised weight is a     *)
(* multiple of 1/WDen.  A daily portfolio return, gross or net, is then a  *)
(* multiple of 1/(RetDen * WDen), and equity is kept in units of the       *)
(* initial capital: equity[t] = EquityNum[t] / (RetDen * WDen)^t.          *)
(***************************************************************************)
NDays == 3          \* return dates 1..NDays (price dates 0..NDays)
RetDen == 10        \* returns and rates are multiples of 1/RetDen

PriceDates == 0..NDays
RetDates == 1..NDays

\* weight rows as given (not normalised), and what a day's asset returns can be
WRows == {<<1, 0>>, <<0, 2>>}
DayRets == {<<0 - 9, 0>>, <<0, 0 - 9>>, <<5, 5>>}
Rates == {1, 2}
Cols == 1..2
RowSum(r) == r[1] + r[2]
\* the common denominator of the normalised rows
WDen == CHOOSE m \in 1..(RetDen * RetDen) :
            /\ \A r \in WRows : m % RowSum(r) = 0
            /\ \A k \in 1..(m - 1) : \E r \in WRows : k % RowSum(r) # 0
BtOne == RetDen * WDen

\* a missing weight row, and a row of NaN
Missing == <<>>
NaNRow == <<>>

Abs(x) == IF x >= 0 THEN x ELSE 0 - x

\* line 59: weights.reindex(prices.index).ffill().bfill().fillna(0)
Filled(W) ==
    [t \in PriceDates |->
        IF \E u \in PriceDates : u <= t /\ W[u] # Missing
        THEN W[CHOOSE u \in PriceDates :
                 /\ u <= t /\ W[u] # Missing
                 /\ \A v \in PriceDates : (v <= t /\ W[v] # Missing) => v <= u]
        ELSE IF \E u \in PriceDates : W[u] # Missing
        THEN W[CHOOSE u \in PriceDates :
                 /\ W[u] # Missing
                 /\ \A v \in PriceDates : W[v] # Missing => u <= v]
        ELSE <<0, 0>>]

\* line 62: each row divided by its sum (0/0 is NaN)
NormalisedRows(F) ==
    [t \in PriceDates |->
        IF RowSum(F[t]) = 0 THEN NaNRow
        ELSE [i \in Cols |-> (F[t][i] * WDen) \div RowSum(F[t])]]

\* line 64: (ret * weights.shift(1)).sum(axis=1); the first return date has no
\* shifted row and NaN products are skipped by sum
GrossNum(t, ret, W) ==
    IF t = 1 \/ W[t - 1] = NaNRow THEN 0
    ELSE ret[t][1] * W[t - 1][1] + ret[t][2] * W[t - 1][2]

\* line 65: weights.diff().abs().sum(axis=1), in 1/WDen
Turnover(t, W) ==
    IF t = 1 \/ W[t] = NaNRow \/ W[t - 1] = NaNRow THEN 0
    ELSE Abs(W[t][1] - W[t - 1][1]) + Abs(W[t][2] - W[t - 1][2])

\* lines 66-68: port_ret - turnover * (cost_bps + slippage_bps), as 1 + port_ret
FactorNum(t, ret, W, rate) == BtOne + GrossNum(t, ret, W) - Turnover(t, W) * rate

RECURSIVE EquityNum(_, _, _, _)
\* line 70: (1 + port_ret).cumprod()
EquityNum(t, ret, W, rate) ==
    IF t = 0 THEN 1
    ELSE FactorNum(t, ret, W, rate) * EquityNum(t - 1, ret, W, rate)

\* lines 59-70: the equity curve of run(prices, weights) at the given rate
run(ret, weights, rate) ==
    LET W == Tabulated(NormalisedRows(Filled(weights)), NDays)
    IN [t \in RetDates |-> EquityNum(t, ret, W, rate)]

RECURSIVE Pow(_, _)
Pow(b, e) == IF e = 0 THEN 1 ELSE b * Pow(b, e - 1)

\* a quotient with its sign carried by the numerator
Rat(n, d) == IF d < 0 THEN [num |-> 0 - n, den |-> 0 - d] ELSE [num |-> n, den |-> d]
IsNaN(q) == q.den = 0

RECURSIVE FracLess(_, _, _, _)
\* a / b < c / d for b, d > 0, by integer parts and remainders
FracLess(a, b, c, d) ==
    IF a \div b # c \div d THEN a \div b < c \div d
    ELSE IF c % d = 0 THEN FALSE
    ELSE IF a % b = 0 THEN TRUE
    ELSE FracLess(d, c % d, b, a % b)
RatLess(q, r) == FracLess(q.num, q.den, r.num, r.den)
RatLeqZero(q) == ~IsNaN(q) /\ q.num <= 0

\* Series.min() of a series over the dates 1..n: the least of the values that
\* are not NaN (NaN when all are)
MinOf(dd, n) ==
    IF \A t \in 1..n : IsNaN(dd[t]) THEN Rat(0, 0)
    ELSE dd[CHOOSE t \in 1..n :
                /\ ~IsNaN(dd[t])
                /\ \A u \in 1..n : ~IsNaN(dd[u]) => ~RatLess(dd[u], dd[t])]

RECURSIVE RunningMax(_, _)
\* the running maximum of a series, up to date n, as a sequence
RunningMax(f, n) ==
    IF n = 1 THEN <<f[1]>>
    ELSE LET prev == RunningMax(f, n - 1)
         IN Append(prev, IF f[n] > prev[n - 1] THEN f[n] ELSE prev[n - 1])
RECURSIVE RunningMin(_, _)
\* the running minimum
RunningMin(f, n) ==
    IF n = 1 THEN <<f[1]>>
    ELSE LET prev == RunningMin(f, n - 1)
         IN Append(prev, IF f[n] < prev[n - 1] THEN f[n] ELSE prev[n - 1])

RECURSIVE ScaledEquity(_, _)
\* the equity values up to date n over the common denominator BtOne^NDays
ScaledEquity(curve, n) ==
    IF n = 0 THEN <<>>
    ELSE Append(ScaledEquity(curve, n - 1), curve[n] * Pow(BtOne, NDays - n))

\* equity.cummin(): the running trough, taken for the running peak
cummin(equity) == RunningMin(equity, NDays)

\* line 80: equity.cummax()
cummax(equity) == RunningMax(equity, NDays)

RECURSIVE Quotients(_, _, _)
\* (a - b) / b, entry by entry
Quotients(a, b, n) ==
    IF n = 0 THEN <<>>
    ELSE Append(Quotients(a, b, n - 1), Rat(a[n] - b[n], b[n]))

\* lines 80-82: drawdown = (equity - rolling_max) / rolling_max, and its minimum
max_drawdown(curve) ==
    LET equity == ScaledEquity(curve, NDays)
        rolling_max == cummax(equity)
        drawdown == Quotients(equity, rolling_max, NDays)
    IN MinOf(drawdown, NDays)

\* weight schedules: no rows before date s, a row on every date from s on
Schedules ==
    {W \in [PriceDates -> WRows \cup {Missing}] :
        \E s \in 0..(NDays + 1) :
            \A t \in PriceDates : (W[t] = Missing) <=> (t < s)}

\* a second schedule: the first with the row of one date replaced
Variants(W) ==
    {[W EXCEPT ![d] = r] : d \in {t \in PriceDates : W[t] # Missing}, r \in WRows}

\* three calls on the same prices: "A" and "B" with two schedules at the
\* backtester's rate, "Z" with the first schedule at a zero rate
RunIds == {"A", "B", "Z"}
NoCurve == <<>>

BtInit ==
    \E ret \in [RetDates -> DayRets], wA \in Schedules, rate \in Rates :
        \E wB \in Variants(wA) \cup {wA} :
            bt = [ret |-> ret, wA |-> wA, wB |-> wB, rate |-> rate,
                  equity |-> [k \in RunIds |-> NoCurve],
                  max_drawdown |-> [k \in RunIds |-> Rat(0, 0)]]

Backtest(k) ==
    /\ bt.equity[k] = NoCurve
    /\ LET equity == run(bt.ret, IF k = "B" THEN bt.wB ELSE bt.wA,
                         IF k = "Z" THEN 0 ELSE bt.rate)
       IN bt' = [bt EXCEPT !.equity[k] = equity,
                           !.max_drawdown[k] = max_drawdown(equity)]
    /\ UNCHANGED <<libs, det, pc, loc, hmmFile, fpFile, rfFile, calls, outcome, pred, opt, slv, fac, sig, risk, pipe>>

InitBt == RegimeIdle /\ OptIdle /\ slv = NoCall /\ BtInit /\ RestIdle
NextBt == \E k \in RunIds : Backtest(k)
SpecBt == InitBt /\ [][NextBt]_vars

\* C9: no look-ahead.  Two runs on the same prices whose weight matrices agree
\* on every date up to t (same rows present, same values) give the same equity
\* up to t.
AgreeUpTo(t) == \A u \in PriceDates : u <= t => bt.wA[u] = bt.wB[u]

C9_NoLookAhead ==
    (bt.equity["A"] # NoCurve /\ bt.equity["B"] # NoCurve) =>
        \A t \in RetDates :
            AgreeUpTo(t) => \A u \in 1..t : bt.equity["A"][u] = bt.equity["B"][u]

\* C10: for the same prices and weight schedule, the total return at a non-zero
\* cost-plus-slippage rate is at most the total return at a zero rate.
C10_CostsNeverRaiseReturn ==
    (bt.equity["A"] # NoCurve /\ bt.equity["Z"] # NoCurve) =>
        bt.equity["A"][NDays] <= bt.equity["Z"][NDays]

(***************************************************************************)
(* RiskEngine.  A simulation draws standard normals from a generator built *)
(* from its seed; a draw is an integer in -2..2.  With dt = 1/252,         *)
(* mu * dt = m / 10 and sigma * sqrt(dt) = a / 10 (the daily mean and      *)
(* deviation, in tenths), skew and kurt are hundredths.  A log return is a *)
(* multiple of 1/LogDen, and a cumulative return exp(L / LogDen) - 1 is    *)
(* held as its log level L: exp is strictly increasing, so the order of    *)
(* two returns is the order of their levels, and a drawdown                *)
(* (cum - peak) / peak is held as the level of cum minus the level of      *)
(* peak.                                                                   *)
(***************************************************************************)
MaxDays == 2        \* days of a simulation
NSims == 2          \* self.n_sims
MaxDraws == 2       \* draws from each random source other than a seeded generator

CfThreshold == 1    \* 0.01, in hundredths
LogDen == 2 * 24 * 100 * 100

NoSeed == 0 - 1
Seeds == {NoSeed, 0, 42}

\* what the engine is built with: RiskEngine(n_sims, ui_sims)
UiSims == NSims - 1

\* the bit stream of a generator: the k-th standard normal of the stream
\* started from the key (a seed, or an entropy draw)
StandardNormal(key, k) == (((key * 7 + k * k * 3 + key * k + k) % 11) % 5) - 2

\* np.random.standard_normal: the generator is numpy's global one, whose
\* position other draws move
GlobalGenerator(seed, entropy, global) == 1000 + global

\* line 74: np.random.default_rng(seed); without a seed, fresh OS entropy
default_rng(seed, entropy, global) == IF seed = NoSeed THEN 100 + entropy ELSE seed

\* line 84: Z + (skew / 6) (Z^2 - 1) + (kurt / 24) (Z^3 - 3 Z), times 24 * 100
CornishFisher(z, skew, kurt) ==
    2400 * z + 4 * skew * (z * z - 1) + kurt * (z * z * z - 3 * z)

\* lines 76-86: drift + vol * Z for one draw, times LogDen
LogReturn(m, a, skew, kurt, z) ==
    LET adjusted == IF Abs(skew) > CfThreshold \/ Abs(kurt) > CfThreshold
                    THEN CornishFisher(z, skew, kurt) ELSE 2400 * z
    IN 2400 * (20 * m - a * a) + 20 * a * adjusted

RECURSIVE CumSum(_, _)
\* np.cumsum along a path, up to day j
CumSum(lr, j) == IF j = 0 THEN <<>>
                 ELSE LET prev == CumSum(lr, j - 1)
                      IN Append(prev, (IF j = 1 THEN 0 ELSE prev[j - 1]) + lr[j])

\* lines 59-87: the paths, n rows of `days` log levels
simulate_paths(m, a, days, n_paths, seed, skew, kurt, entropy, global) ==
    LET n == IF n_paths = 0 THEN NSims ELSE n_paths
        key == default_rng(seed, entropy, global)
    IN [i \in 1..n |->
          CumSum([j \in 1..days |->
                    LogReturn(m, a, skew, kurt,
                              StandardNormal(key, (i - 1) * days + (j - 1)))], days)]

\* np.minimum.accumulate, taken for the running peak
TroughAccumulate(path) == RunningMin(path, Len(path))

\* line 112: np.maximum.accumulate(cum, axis=1)
PeakAccumulate(path) == RunningMax(path, Len(path))

\* lines 111-114: the worst drawdown of each path
max_drawdowns_vectorized(paths, n) ==
    [i \in 1..n |->
        LET peak == PeakAccumulate(paths[i])
            dd == [j \in 1..Len(paths[i]) |-> paths[i][j] - peak[j]]
        IN CHOOSE x \in {dd[j] : j \in 1..Len(paths[i])} :
              \A j \in 1..Len(paths[i]) : x <= dd[j]]

\* a ruin level (in percent) as the log level a return (or a drawdown) must be
\* below: LogDen * ln(1 + ruin_level), rounded up
RuinLevels == {0 - 50, 0 - 20, 0}
LogLevel(ruin_level) ==
    CASE ruin_level = 0 - 50 -> 0 - 332710
      [] ruin_level = 0 - 20 -> 0 - 107108
      [] ruin_level = 0 -> 0

\* np.mean(x > ruin_level): the comparison turned round
FractionAbove(x, n, ruin_level) ==
    [num |-> Cardinality({i \in 1..n : x[i] > LogLevel(ruin_level)}), den |-> n]

\* np.mean(x < ruin_level), as count over size
FractionBelow(x, n, ruin_level) ==
    [num |-> Cardinality({i \in 1..n : x[i] < LogLevel(ruin_level)}), den |-> n]

\* the moments of the portfolio's daily returns: mean and deviation in tenths,
\* skewness and excess kurtosis in hundredths, and whether the sample has more
\* than 30 days
Stats == {[m |-> 0, a |-> 1, skew |-> 50, kurt |-> 0, long |-> FALSE],
          [m |-> 0 - 1, a |-> 2, skew |-> 0 - 250, kurt |-> 700, long |-> TRUE]}

NoRiskCall == [fn |-> "none", m |-> 0, a |-> 0, skew |-> 0, kurt |-> 0, days |-> 0,
               n_paths |-> 0, seed |-> NoSeed, paths |-> <<>>, ruin_level |-> 0,
               max_dds |-> <<>>, max_dd_prob |-> [num |-> 0, den |-> 0],
               prob_ruin |-> [num |-> 0, den |-> 0]]

RiskInit == risk = [entropy |-> 0, global |-> 0, last |-> NoRiskCall, prev |-> NoRiskCall]

\* the generator of a call without a seed takes fresh entropy
EntropyAfter(seed) == IF seed = NoSeed THEN risk.entropy + 1 ELSE risk.entropy

\* a direct call of simulate_paths (n_paths 0: not given)
SimulatePaths(st, days, n_paths, seed) ==
    /\ seed = NoSeed => risk.entropy < MaxDraws
    /\ risk' = [risk EXCEPT
                  !.entropy = EntropyAfter(seed),
                  !.prev = risk.last,
                  !.last = [NoRiskCall EXCEPT
                              !.fn = "simulate_paths", !.m = st.m, !.a = st.a,
                              !.skew = st.skew, !.kurt = st.kurt, !.days = days,
                              !.n_paths = n_paths, !.seed = seed,
                              !.paths = simulate_paths(st.m, st.a, days, n_paths, seed,
                                                       st.skew, st.kurt,
                                                       risk.entropy, risk.global)]]
    /\ UNCHANGED <<libs, det, pc, loc, hmmFile, fpFile, rfFile, calls, outcome, pred,
                   opt, slv, bt, fac, sig, pipe>>

\* a draw from numpy's global generator made elsewhere (np.random.rand in
\* _fit_rf_ensemble, np.random.choice in main) or its reseeding (_synthetic_data)
OtherDraw ==
    /\ risk.global < MaxDraws
    /\ risk' = [risk EXCEPT !.global = risk.global + 1]
    /\ UNCHANGED <<libs, det, pc, loc, hmmFile, fpFile, rfFile, calls, outcome, pred,
                   opt, slv, bt, fac, sig, pipe>>

\* np.clip(x, lo, hi)
ClipTo(x, lo, hi) == IF x < lo THEN lo ELSE IF x > hi THEN hi ELSE x

\* RiskEngine.run, lines 140-165: the moments (skewness and kurtosis only of a
\* sample of more than 30 days, clipped), the paths, the drawdowns, the two
\* probabilities.  The metrics computed from the size of the returns are not
\* part of the record.
RiskRun(st, days, ruin_level, seed, ui_only) ==
    /\ seed = NoSeed => risk.entropy < MaxDraws
    /\ LET skew == ClipTo(IF st.long THEN st.skew ELSE 0, 0 - 200, 200)
           kurt == ClipTo(IF st.long THEN st.kurt ELSE 0, 0 - 100, 600)
           n_paths == IF ui_only THEN UiSims ELSE NSims
           paths == simulate_paths(st.m, st.a, days, n_paths, seed, skew, kurt,
                                   risk.entropy, risk.global)
           max_dds == max_drawdowns_vectorized(paths, n_paths)
           terminal_returns == [i \in 1..n_paths |-> paths[i][days]]
       IN risk' = [risk EXCEPT
                     !.entropy = EntropyAfter(seed),
                     !.prev = risk.last,
                     !.last = [fn |-> "run", m |-> st.m, a |-> st.a, skew |-> skew,
                               kurt |-> kurt, days |-> days, n_paths |-> n_paths,
                               seed |-> seed, paths |-> paths,
                               ruin_level |-> ruin_level, max_dds |-> max_dds,
                               max_dd_prob |-> FractionBelow(max_dds, n_paths, ruin_level),
                               prob_ruin |-> FractionBelow(terminal_returns, n_paths,
                                                           ruin_level)]]
    /\ UNCHANGED <<libs, det, pc, loc, hmmFile, fpFile, rfFile, calls, outcome, pred,
                   opt, slv, bt, fac, sig, pipe>>

BtIdle == bt = None
InitSim == RegimeIdle /\ OptIdle /\ slv = NoCall /\ BtIdle /\ fac = None /\ sig = None
              /\ RiskInit /\ pipe = None
NextSim ==
    \/ \E st \in Stats, days \in 1..MaxDays, n_paths \in 0..1, seed \in Seeds :
          SimulatePaths(st, days, n_paths, seed)
    \/ OtherDraw
SpecSim == InitSim /\ [][NextSim]_vars

\* runs over the longest horizon, with a given seed
NextRuin ==
    \E st \in Stats, ruin_level \in RuinLevels,
       seed \in Seeds \ {NoSeed}, ui_only \in BOOLEAN :
          RiskRun(st, MaxDays, ruin_level, seed, ui_only)
SpecRuin == InitSim /\ [][NextRuin]_vars

\* two simulate_paths calls with one non-null seed and equal arguments
SameSimulation(c, d) ==
    /\ c.fn = "simulate_paths" /\ d.fn = "simulate_paths"
    /\ c.seed # NoSeed /\ c.seed = d.seed
    /\ c.m = d.m /\ c.a = d.a /\ c.skew = d.skew /\ c.kurt = d.kurt
    /\ c.n_paths = d.n_paths /\ c.days = d.days

\* C18: two calls of simulate_paths with the same non-null seed and the same mu,
\* sigma, skew, kurt, path count and day count return the same paths (hence the
\* same terminal returns), whatever was drawn in between.
C18_SeededPathsRepeat ==
    SameSimulation(risk.prev, risk.last) => risk.prev.paths = risk.last.paths

\* the second of two equal seeded calls, made after another draw moved the
\* global generator, on paths that are not all equal
C18_Witness ==
    /\ SameSimulation(risk.prev, risk.last)
    /\ risk.global > 0
    /\ risk.last.n_paths = 0
    /\ risk.last.paths[1] # risk.last.paths[2]

\* two runs with one seed and equal moments, day count and path count
SameRunInputs(c, d) ==
    /\ c.fn = "run" /\ d.fn = "run"
    /\ c.seed # NoSeed /\ c.seed = d.seed
    /\ c.m = d.m /\ c.a = d.a /\ c.skew = d.skew /\ c.kurt = d.kurt
    /\ c.n_paths = d.n_paths /\ c.days = d.days

\* the reported probability is the count of terminal returns below the level
\* over the path count, within [0, 1]
RuinFraction(c) ==
    /\ c.prob_ruin.den = c.n_paths
    /\ c.prob_ruin.num =
          Cardinality({i \in 1..c.n_paths : c.paths[i][c.days] < LogLevel(c.ruin_level)})
    /\ 0 <= c.prob_ruin.num /\ c.prob_ruin.num <= c.prob_ruin.den

\* C20: for fixed moments, day count, path count and seed, the probability of
\* ruin is the fraction of paths whose terminal return is below ruin_level, lies
\* in [0, 1], and does not decrease when ruin_level is raised.
C20_RuinMonotone ==
    /\ risk.last.fn = "run" => RuinFraction(risk.last)
    /\ (SameRunInputs(risk.prev, risk.last)
          /\ risk.prev.ruin_level <= risk.last.ruin_level)
       => risk.prev.prob_ruin.num * risk.last.prob_ruin.den
             <= risk.last.prob_ruin.num * risk.prev.prob_ruin.den

\* the same run at a higher ruin level, with a strictly larger probability
C20_Witness ==
    /\ SameRunInputs(risk.prev, risk.last)
    /\ risk.prev.ruin_level < risk.last.ruin_level
    /\ risk.prev.prob_ruin.num < risk.last.prob_ruin.num
    /\ risk.last.prob_ruin.num < risk.last.prob_ruin.den

(***************************************************************************)
(* FactorEngine.drawdown_pct, and the drawdowns along run_pipeline.main:   *)
(* the factors of the prices (line 97), the backtest (line 134), the Monte *)
(* Carlo run with its default seed, ruin level and path count (line 149).  *)
(***************************************************************************)
RECURSIVE PriceSeries(_, _, _)
\* the prices of column c on the price dates 0..t (entries 1..t + 1), from the
\* daily returns, over the common denominator RetDen^NDays
PriceSeries(ret, c, t) ==
    IF t = 0 THEN <<Pow(RetDen, NDays)>>
    ELSE LET prev == PriceSeries(ret, c, t - 1)
         IN Append(prev, (prev[t] * (RetDen + ret[t][c])) \div RetDen)

\* prices.rolling(min_periods=1, window=len(prices)).min(): the running low
rolling_min(prices) == RunningMin(prices, Len(prices))

\* line 43: prices.rolling(min_periods=1, window=len(prices)).max()
rolling_max(prices) == RunningMax(prices, Len(prices))

\* lines 43-44: (prices - rolling_max) / rolling_max, one column
drawdown_pct(prices) == Quotients(prices, rolling_max(prices), Len(prices))

NoFac == [done |-> FALSE, drawdown |-> [c \in Cols |-> <<>>]]

\* compute_all_factors, line 66: the drawdown frame of the price frame
DrawdownPct ==
    /\ fac' = [done |-> TRUE,
               drawdown |-> [c \in Cols |-> drawdown_pct(PriceSeries(bt.ret, c, NDays))]]
    /\ UNCHANGED <<libs, det, pc, loc, hmmFile, fpFile, rfFile, calls, outcome, pred,
                   opt, slv, bt, sig, risk, pipe>>

\* main, lines 96-97
MainFactors == ~fac.done /\ DrawdownPct
\* main, lines 133-134
MainBacktest == fac.done /\ Backtest("A")
\* main, lines 141-151: risk.run(w_avg, ret_df, days=252, return_paths=True,
\* ui_only=False)
MainRisk ==
    /\ bt.equity["A"] # NoCurve
    /\ risk.last.fn = "none"
    /\ \E st \in Stats : RiskRun(st, MaxDays, 0 - 50, 42, FALSE)

InitDd == /\ RegimeIdle /\ OptIdle /\ slv = NoCall
          /\ BtInit /\ bt.wB = bt.wA
          /\ fac = NoFac /\ sig = None /\ RiskInit /\ pipe = None
NextDd == MainFactors \/ MainBacktest \/ MainRisk
SpecDd == InitDd /\ [][NextDd]_vars

\* C11: drawdown values are never positive: the max_drawdown metric of
\* Backtester.run, every per-path value of max_drawdowns_vectorized, and every
\* entry of drawdown_pct on strictly positive prices are at most 0.
C11_DrawdownsNotPositive ==
    /\ \A k \in RunIds : bt.equity[k] # NoCurve => RatLeqZero(bt.max_drawdown[k])
    /\ risk.last.fn = "run" =>
          \A i \in 1..risk.last.n_paths : risk.last.max_dds[i] <= 0
    /\ fac.done =>
          \A c \in Cols : \A t \in 1..(NDays + 1) : RatLeqZero(fac.drawdown[c][t])

\* the three have run, each with a strictly negative drawdown, the backtest
\* through a negative equity
C11_Witness ==
    /\ bt.equity["A"] # NoCurve /\ bt.max_drawdown["A"].num < 0
    /\ \E t \in RetDates : bt.equity["A"][t] < 0
    /\ risk.last.fn = "run" /\ \E i \in 1..risk.last.n_paths : risk.last.max_dds[i] < 0
    /\ fac.done /\ \E c \in Cols : \E t \in 1..(NDays + 1) : fac.drawdown[c][t].num < 0

(***************************************************************************)
(* PortfolioOptimizer: the signal model and get_signals.                   *)
(* Weights and momenta are rationals [num, den] (den = 0: NaN), the buy    *)
(* probability of the classifier is in hundredths.                         *)
(***************************************************************************)
MaxCols == 2        \* asset columns of a get_signals call
MaxTrainings == 2   \* train_signal_model calls on one optimizer

NaN == Rat(0, 0)
\* q > c / 100 and q < c / 100 as Python compares floats: False on NaN
Above(q, c) == ~IsNaN(q) /\ 100 * q.num > c * q.den
Below(q, c) == ~IsNaN(q) /\ 100 * q.num < c * q.den

\* the rule with the Crisis test first
_crisis_first_signal(w, m, regime) ==
    IF regime = 3
    THEN [signal |-> "Hold", reason |-> "Crisis regime - reduce trading"]
    ELSE IF Above(w, 15) /\ Above(m, 5)
    THEN [signal |-> "Buy", reason |-> "Strong allocation + positive momentum"]
    ELSE IF Above(w, 10) /\ Above(m, 0)
    THEN [signal |-> "Hold", reason |-> "Adequate allocation"]
    ELSE IF Below(w, 5) \/ Below(m, 0 - 10)
    THEN [signal |-> "Sell", reason |-> "Underweight or negative momentum"]
    ELSE [signal |-> "Hold", reason |-> "Neutral"]

\* lines 391-402
_rule_based_signal(w, m, regime) ==
    IF Above(w, 15) /\ Above(m, 5)
    THEN [signal |-> "Buy", reason |-> "Strong allocation + positive momentum"]
    ELSE IF Above(w, 10) /\ Above(m, 0)
    THEN [signal |-> "Hold", reason |-> "Adequate allocation"]
    ELSE IF Below(w, 5) \/ Below(m, 0 - 10)
    THEN [signal |-> "Sell", reason |-> "Underweight or negative momentum"]
    ELSE IF regime = 3
    THEN [signal |-> "Hold", reason |-> "Crisis regime - reduce trading"]
    ELSE [signal |-> "Hold", reason |-> "Neutral"]

\* lines 336-344: the action of a buy probability
_classifier_signal(buy_prob) ==
    IF buy_prob > 60 THEN [signal |-> "Buy", reason |-> "XGB Buy probability"]
    ELSE IF buy_prob < 40 THEN [signal |-> "Sell", reason |-> "XGB Sell probability"]
    ELSE [signal |-> "Hold", reason |-> "Neutral (buy)"]

\* line 328 without its factors test
ClassifierPathWithoutFactors(factors) == sig.trained /\ sig.scaler

\* line 328: the classifier is asked (_build_signal_features never returns None)
ClassifierPath(factors) == sig.trained /\ sig.scaler /\ factors

\* the last row of the weights, the last row of the momentum (in hundredths) and
\* the probability the classifier gives the column's features: 0.5 is also the
\* value line 334 takes for a classifier that learned one class
ColumnInputs ==
    << [w |-> Rat(20, 100), m |-> Rat(10, 100),     p |-> 61],
       [w |-> Rat(20, 100), m |-> Rat(10, 100),     p |-> 60],
       [w |-> Rat(3, 100),  m |-> Rat(3, 100),      p |-> 39],
       [w |-> Rat(12, 100), m |-> Rat(3, 100),      p |-> 40],
       [w |-> Rat(12, 100), m |-> Rat(0 - 20, 100), p |-> 50],
       [w |-> NaN,          m |-> Rat(10, 100),     p |-> 61],
       [w |-> Rat(7, 100),  m |-> Rat(0 - 5, 100),  p |-> 39],
       [w |-> Rat(20, 100), m |-> NaN,              p |-> 41] >>
Frame(k, n) == [c \in 1..n |-> ColumnInputs[((k + c - 2) % Len(ColumnInputs)) + 1]]

NoRule == [called |-> FALSE, w |-> NaN, m |-> NaN, regime |-> 0, signal |-> "", reason |-> ""]
NoSignalCall == [called |-> FALSE, n |-> 0, factors |-> FALSE, regime |-> 0, p |-> <<>>]

\* __init__, lines 45-51, and the import outcomes of lines 19-31
SigInit ==
    sig \in [xgb : BOOLEAN, sklearn : BOOLEAN,
             trained : {FALSE}, scaler : {FALSE}, model : {FALSE},
             trainings : {0}, returned : {"none"}, succeeded : {FALSE},
             call : {NoSignalCall}, out : {<<>>}, rule : {NoRule}]

\* lines 227-301; enough: some ticker has 50 rows of features (line 273)
train_signal_model(enough) ==
    /\ sig.trainings < MaxTrainings
    /\ sig' = IF ~sig.xgb \/ ~sig.sklearn \/ ~enough
              THEN [sig EXCEPT !.trainings = @ + 1, !.returned = "False",
                               !.call = NoSignalCall, !.out = <<>>]
              ELSE [sig EXCEPT !.trainings = @ + 1, !.returned = "True",
                               !.scaler = TRUE, !.model = TRUE, !.trained = TRUE,
                               !.succeeded = TRUE,
                               !.call = NoSignalCall, !.out = <<>>]
    /\ UNCHANGED <<libs, det, pc, loc, hmmFile, fpFile, rfFile, calls, outcome, pred,
                   opt, slv, bt, fac, risk, pipe>>

\* lines 305-371: frame k of n columns; weights and momentum may be empty frames
get_signals(k, n, has_weights, has_momentum, regime, factors) ==
    /\ LET signals ==
             [c \in 1..n |->
                LET w == IF has_weights THEN Frame(k, n)[c].w ELSE Rat(1, n)
                    m == IF has_momentum THEN Frame(k, n)[c].m ELSE Rat(0, 1)
                    s == IF ClassifierPath(factors)
                         THEN _classifier_signal(Frame(k, n)[c].p)
                         ELSE _rule_based_signal(w, m, regime)
                IN [ticker |-> c, signal |-> s.signal, reason |-> s.reason,
                    weight |-> w, momentum |-> m]]
       IN sig' = [sig EXCEPT !.out = signals,
                             !.call = [called |-> TRUE, n |-> n, factors |-> factors,
                                       regime |-> regime,
                                       p |-> [c \in 1..n |-> Frame(k, n)[c].p]]]
    /\ UNCHANGED <<libs, det, pc, loc, hmmFile, fpFile, rfFile, calls, outcome, pred,
                   opt, slv, bt, fac, risk, pipe>>

\* _rule_based_signal called on its own
RuleBasedSignal(w, m, regime) ==
    /\ LET s == _rule_based_signal(w, m, regime)
       IN sig' = [sig EXCEPT !.rule = [called |-> TRUE, w |-> w, m |-> m, regime |-> regime,
                                       signal |-> s.signal, reason |-> s.reason]]
    /\ UNCHANGED <<libs, det, pc, loc, hmmFile, fpFile, rfFile, calls, outcome, pred,
                   opt, slv, bt, fac, risk, pipe>>

InitSig == /\ RegimeIdle /\ OptIdle /\ slv = NoCall /\ BtIdle
           /\ fac = None /\ risk = None /\ SigInit /\ pipe = None
NextSig ==
    \/ \E enough \in BOOLEAN : train_signal_model(enough)
    \/ \E k \in 1..Len(ColumnInputs), n \in 1..MaxCols, has_weights \in BOOLEAN,
          has_momentum \in BOOLEAN, regime \in {0, 3}, factors \in BOOLEAN :
          get_signals(k, n, has_weights, has_momentum, regime, factors)
SpecSig == InitSig /\ [][NextSig]_vars

\* weights and momenta around the thresholds of the rule, in hundredths, and NaN
RuleWeights == {Rat(x, 100) : x \in {4, 5, 10, 11, 15, 16}} \cup {NaN}
RuleMomenta == {Rat(x, 100) : x \in {0 - 11, 0 - 10, 0, 1, 5, 6}} \cup {NaN}
NextRule == \E w \in RuleWeights, m \in RuleMomenta, regime \in States :
               RuleBasedSignal(w, m, regime)
SpecRule == InitSig /\ [][NextRule]_vars

\* C16: the rule-based fallback signal is, for every weight w, momentum m and
\* regime: Buy when w > 0.15 and m > 0.05; otherwise Sell when w < 0.05 or
\* m < -0.10; otherwise Hold; the Crisis regime turns no Buy or Sell into
\* another action.
C16_RuleBasedSignal ==
    sig.rule.called =>
        LET w == sig.rule.w
            m == sig.rule.m
        IN sig.rule.signal =
              IF Above(w, 15) /\ Above(m, 5) THEN "Buy"
              ELSE IF Below(w, 5) \/ Below(m, 0 - 10) THEN "Sell"
              ELSE "Hold"

\* in the Crisis regime, a Sell on momentum alone
C16_Witness ==
    /\ sig.rule.called /\ sig.rule.regime = 3
    /\ sig.rule.signal = "Sell" /\ Above(sig.rule.w, 15)

\* C17: get_signals emits exactly one record per asset column with an action in
\* {Buy, Hold, Sell}.  It takes the classifier path for an asset exactly when the
\* signal model is trained, its scaler is set and factors are supplied, and there
\* a buy probability p gives Buy if p > 0.60, Sell if p < 0.40 and Hold
\* otherwise; in every other case (classifier library missing, no training that
\* returned True, no factors) the record is the rule-based fallback's.
ClassifierReasons == {"XGB Buy probability", "XGB Sell probability", "Neutral (buy)"}

SigBits == 5        \* bits of a significand
MaxSample == 3      \* length of a return sample

RECURSIVE RoundPos(_, _)
\* the float nearest to n / d, for n > 0 and d > 0
RoundPos(n, d) ==
    IF n >= Pow(2, SigBits) * d
    THEN LET r == RoundPos(n, 2 * d) IN [num |-> 2 * r.num, den |-> r.den]
    ELSE IF n < Pow(2, SigBits - 1) * d
    THEN LET r == RoundPos(2 * n, d) IN [num |-> r.num, den |-> 2 * r.den]
    ELSE LET down == n \div d
             rest == n % d
             up == 2 * rest > d \/ (2 * rest = d /\ down % 2 = 1)
         IN [num |-> IF up THEN down + 1 ELSE down, den |-> 1]

RECURSIVE Reduced(_)
\* the same value in lowest terms (the denominators are powers of 2)
Reduced(q) == IF q.num = 0 THEN [num |-> 0, den |-> 1]
              ELSE IF q.den > 1 /\ q.num % 2 = 0
              THEN Reduced([num |-> q.num \div 2, den |-> q.den \div 2])
              ELSE q

\* the float nearest to n / d, for d > 0
Round(n, d) == IF n = 0 THEN [num |-> 0, den |-> 1]
               ELSE IF n < 0 THEN LET r == Reduced(RoundPos(0 - n, d))
                                  IN [num |-> 0 - r.num, den |-> r.den]
               ELSE Reduced(RoundPos(n, d))

\* float addition, subtraction, multiplication by a fraction, division by a count
FAdd(a, b) == Round(a.num * b.den + b.num * a.den, a.den * b.den)
FSub(a, b) == Round(a.num * b.den - b.num * a.den, a.den * b.den)
FMul(a, t) == Round(a.num * t.num, a.den * t.den)
FDiv(a, n) == Round(a.num, a.den * n)
FLeq(a, b) == a.num * b.den <= b.num * a.den

\* line 95: np.percentile(returns, q * 100), linear interpolation between the
\* order statistics around position q (n - 1); q is a fraction [num, den]
percentile(returns, q) ==
    LET n == Len(returns)
        sorted == SortSeq(returns, LAMBDA a, b : ~FLeq(b, a))
        lo == (q.num * (n - 1)) \div q.den
        t == [num |-> (q.num * (n - 1)) % q.den, den |-> q.den]
        a == sorted[lo + 1]
        b == sorted[IF lo + 2 <= n THEN lo + 2 ELSE n]
        diff_b_a == FSub(b, a)
    IN IF 2 * t.num >= t.den
       THEN FSub(b, FMul(diff_b_a, [num |-> t.den - t.num, den |-> t.den]))
       ELSE FAdd(a, FMul(diff_b_a, t))

RECURSIVE FSum(_, _)
\* the sum of the first n entries, added one after the other
FSum(x, n) == IF n = 0 THEN [num |-> 0, den |-> 1] ELSE FAdd(FSum(x, n - 1), x[n])

\* tail.mean()
mean(x) == FDiv(FSum(x, Len(x)), Len(x))

\* line 96: returns[returns <= var]
TailAtOrBelow(returns, var) == SelectSeq(returns, LAMBDA r : FLeq(r, var))

VAR_CONFIDENCE == [num |-> 95, den |-> 100]
\* the confidence argument: None or 0.0 (both falsy), 0.5, 0.95, 1.0
Confidences == {[num |-> 0, den |-> 100], [num |-> 50, den |-> 100],
                [num |-> 95, den |-> 100], [num |-> 100, den |-> 100]}

\* lines 91-98
compute_var_cvar(returns, confidence) ==
    LET conf == IF confidence.num = 0 THEN VAR_CONFIDENCE ELSE confidence
        var == percentile(returns, [num |-> conf.den - conf.num, den |-> conf.den])
        tail == TailAtOrBelow(returns, var)
        cvar == IF Len(tail) > 0 THEN mean(tail) ELSE var
    IN [var |-> var, cvar |-> cvar, tail |-> Len(tail)]

\* floats of the sample: returns with exact significands
Returns == {[num |-> x, den |-> 1] : x \in {0 - 26, 0, 12, 26}}
Samples == UNION {[1..n -> Returns] : n \in 1..MaxSample}

NoVarCall == [called |-> FALSE, returns |-> <<>>, confidence |-> VAR_CONFIDENCE,
              var |-> [num |-> 0, den |-> 1], cvar |-> [num |-> 0, den |-> 1], tail |-> 0]

ComputeVarCvar(returns, confidence) ==
    /\ LET r == compute_var_cvar(returns, confidence)
       IN risk' = [called |-> TRUE, returns |-> returns, confidence |-> confidence,
                   var |-> r.var, cvar |-> r.cvar, tail |-> r.tail]
    /\ UNCHANGED <<libs, det, pc, loc, hmmFile, fpFile, rfFile, calls, outcome, pred,
                   opt, slv, bt, fac, sig, pipe>>

InitVar == /\ RegimeIdle /\ OptIdle /\ slv = NoCall /\ BtIdle
           /\ fac = None /\ sig = None /\ risk = NoVarCall /\ pipe = None
NextVar == \E returns \in Samples, confidence \in Confidences :
              ComputeVarCvar(returns, confidence)
SpecVar == InitVar /\ [][NextVar]_vars

\* C19: for every non-empty return sample and every confidence level,
\* compute_var_cvar returns CVaR <= VaR, CVaR being the mean of the returns at or
\* below the VaR percentile, and VaR itself when no return is.
C19_CvarNotAboveVar ==
    risk.called =>
        /\ FLeq(risk.cvar, risk.var)
        /\ risk.tail = 0 => risk.cvar = risk.var

(***************************************************************************)
(* run_pipeline.main, the data stage: DataLoader.get_universe, the two     *)
(* synthetic fallbacks around the column clean-up, and what main returns.  *)
(* A frame is the place it came from and its number of rows; a price frame *)
(* also carries `live`, the rows left by dropna(how="all").  The loader    *)
(* forward- and back-fills its frames, so a row is all-NaN only when every *)
(* row is.                                                                 *)
(***************************************************************************)
MinRows == 100
Markets == {"usa", "india", "uk", "mars"}
LoaderRows == {0, MinRows - 1, MinRows, MinRows + 1}
RangeDays == {0, MinRows}

EmptyFrame == [src |-> "loader", rows |-> 0, live |-> 0]

\* DataLoader.get_universe: three empties when the prices are empty or short,
\* else the prices with vol and macro on their index (a constant 20.0 series
\* or an empty frame on that index when the fetch gave nothing)
get_universe(rows, live, vol_ok, macro_ok) ==
    IF rows = 0 \/ rows < MinRows
    THEN [market_df |-> EmptyFrame, vol |-> EmptyFrame, macro |-> EmptyFrame]
    ELSE [market_df |-> [src |-> "loader", rows |-> rows, live |-> live],
          vol |-> [src |-> IF vol_ok THEN "loader" ELSE "default",
                   rows |-> rows, live |-> rows],
          macro |-> [src |-> IF macro_ok THEN "loader" ELSE "default",
                     rows |-> rows, live |-> rows]]

\* _synthetic_data: seeded prices, vol = 20.0 and an empty macro frame, all on
\* the business days of the requested range
_synthetic_data(days) ==
    LET f == [src |-> "synthetic", rows |-> days, live |-> days]
    IN  [market_df |-> f, vol |-> f, macro |-> f]

PricesOnlyFallback(data, synth) ==
    IF data.market_df.rows = 0 \/ data.market_df.rows < MinRows
    THEN [data EXCEPT !.market_df = synth.market_df]
    ELSE data

\* main, lines 82-83: empty or short prices replace all three by the synthetic set
ShortFallback(data, synth) ==
    IF data.market_df.rows = 0 \/ data.market_df.rows < MinRows THEN synth ELSE data

\* main, lines 85-89: duplicate columns and all-NaN rows are dropped
CleanColumns(data) == [data EXCEPT !.market_df.rows = data.market_df.live]

\* main, lines 91-92: prices empty after the clean-up replace all three
EmptyFallback(data, synth) == IF data.market_df.rows = 0 THEN synth ELSE data

\* the stages after the data stage run on the three frames; the regime fit
\* raises on an empty feature matrix, otherwise main returns its result dict,
\* whose keys say nothing about where the data came from
MainResult(data) == IF data.market_df.rows = 0 THEN "raised" ELSE "bundle"

NoRun == [done |-> FALSE, market |-> "", loads |-> 0,
          loaded |-> [rows |-> 0, live |-> 0, vol_ok |-> FALSE, macro_ok |-> FALSE],
          got |-> [market_df |-> EmptyFrame, vol |-> EmptyFrame, macro |-> EmptyFrame],
          result |-> "none"]

\* one invocation of main(market, start, end)
Main(market, rows, live, vol_ok, macro_ok, days) ==
    /\ ~pipe.done
    /\ LET synth  == _synthetic_data(days)
           first  == ShortFallback(get_universe(rows, live, vol_ok, macro_ok), synth)
           second == EmptyFallback(CleanColumns(first), synth)
       IN  pipe' = [done |-> TRUE, market |-> market, loads |-> 1,
                    loaded |-> [rows |-> rows, live |-> live,
                                vol_ok |-> vol_ok, macro_ok |-> macro_ok],
                    got |-> second,
                    result |-> MainResult(second)]

InitLoad == /\ RegimeIdle /\ OptIdle /\ slv = NoCall /\ BtIdle
            /\ fac = None /\ sig = None /\ risk = None /\ pipe = NoRun
NextLoad ==
    /\ \E market \in Markets, rows \in LoaderRows, vol_ok \in BOOLEAN,
          macro_ok \in BOOLEAN, days \in RangeDays :
          \E live \in {0, rows} : Main(market, rows, live, vol_ok, macro_ok, days)
    /\ UNCHANGED <<libs, det, pc, loc, hmmFile, fpFile, rfFile, calls, outcome, pred,
                   opt, slv, bt, fac, sig, risk>>
SpecLoad == InitLoad /\ [][NextLoad]_vars

NeedsSynthetic(l) == l.rows = 0 \/ l.rows < MinRows \/ l.live = 0
AllSynthetic(g) ==
    g.market_df.src = "synthetic" /\ g.vol.src = "synthetic" /\ g.macro.src = "synthetic"
NoneSynthetic(g) ==
    g.market_df.src # "synthetic" /\ g.vol.src # "synthetic" /\ g.macro.src # "synthetic"

\* C21: when the loaded prices are empty, shorter than 100 rows, or empty after the
\* column clean-up, the stages get synthetic prices, vol and macro together;
\* in every run the three frames are all synthetic or all from the loader
C21_SyntheticSetIsWhole ==
    pipe.done =>
        /\ NeedsSynthetic(pipe.loaded) => AllSynthetic(pipe.got)
        /\ AllSynthetic(pipe.got) \/ NoneSynthetic(pipe.got)
C21_Witness ==
    /\ pipe.done /\ pipe.loaded.rows = 0 /\ pipe.loaded.vol_ok
    /\ AllSynthetic(pipe.got) /\ pipe.got.vol.rows = MinRows

\* C22: an invocation whose loaded prices are empty or short loads once and ends
\* by reporting the condition, not by returning the ordinary result bundle
C22_ShortInputIsReported ==
    (pipe.done /\ (pipe.loaded.rows = 0 \/ pipe.loaded.rows < MinRows)) =>
        /\ pipe.loads = 1
        /\ pipe.result = "reported"

(***************************************************************************)
(* FactorEngine.momentum_12_1.  Prices are positive integers, returns are  *)
(* exact rationals, NaN where pct_change has no earlier price.             *)
(***************************************************************************)
MaxHistory == 255
DefaultShort == 21
DefaultLong == 252
Month == 21
Year == 252

\* FactorEngine(window_short, window_long), lines 17-19
Windows == {<<DefaultShort, DefaultLong>>, <<2, 5>>, <<DefaultShort, 63>>}
Histories == {3, 25, MaxHistory}

\* a price history of n days that climbs by `step` and falls back every `period` days
Sawtooth(n, base, step, period) == [t \in 1..n |-> base + step * (t % period)]

\* prices.pct_change(n): NaN on the first n dates
pct_change(prices, n) ==
    [t \in 1..Len(prices) |->
        IF t <= n THEN NaN ELSE Rat(prices[t] - prices[t - n], prices[t - n])]

RatSub(a, b) ==
    IF IsNaN(a) \/ IsNaN(b) THEN NaN ELSE Rat(a.num * b.den - b.num * a.den, a.den * b.den)
RatEq(a, b) ==
    IF IsNaN(a) \/ IsNaN(b) THEN IsNaN(a) /\ IsNaN(b) ELSE a.num * b.den = b.num * a.den

\* momentum_12_1(self, prices): self's windows are not read
momentum_12_1(self, prices) ==
    LET ret_12 == pct_change(prices, Year)
        ret_1  == pct_change(prices, Month)
    IN  [t \in 1..Len(prices) |-> RatSub(ret_12[t], ret_1[t])]

NoMomentum == [called |-> FALSE, window_short |-> 0, window_long |-> 0,
               prices |-> <<>>, momentum |-> <<>>]

\* FactorEngine(window_short, window_long).momentum_12_1(prices)
Momentum(w, prices) ==
    /\ ~fac.called
    /\ LET self == [window_short |-> w[1], window_long |-> w[2]]
       IN  fac' = [called |-> TRUE, window_short |-> self.window_short,
                   window_long |-> self.window_long, prices |-> prices,
                   momentum |-> momentum_12_1(self, prices)]
    /\ UNCHANGED <<libs, det, pc, loc, hmmFile, fpFile, rfFile, calls, outcome, pred,
                   opt, slv, bt, sig, risk, pipe>>

InitMom == /\ RegimeIdle /\ OptIdle /\ slv = NoCall /\ BtIdle
           /\ fac = NoMomentum /\ sig = None /\ risk = None /\ pipe = None
NextMom ==
    \E w \in Windows, n \in Histories, base \in {10, 20}, step \in {0, 1, 3},
       period \in {2, 3, 5, 7} : Momentum(w, Sawtooth(n, base, step, period))
SpecMom == InitMom /\ [][NextMom]_vars

\* C23: momentum at a date is the return over the engine's long window minus the
\* return over its short window, and NaN at the dates with fewer than long-window
\* earlier prices
C23_MomentumUsesConfiguredWindows ==
    fac.called =>
        LET long  == pct_change(fac.prices, fac.window_long)
            short == pct_change(fac.prices, fac.window_short)
        IN  \A t \in 1..Len(fac.prices) :
                IF t <= fac.window_long
                THEN IsNaN(fac.momentum[t])
                ELSE /\ ~IsNaN(fac.momentum[t])
                     /\ RatEq(fac.momentum[t], RatSub(long[t], short[t]))

(***************************************************************************)
(* run_pipeline.main, lines 115-130: the weight rows of two dates of one   *)
(* run, from optimize_by_regime with the asset-class map main builds.      *)
(***************************************************************************)
NoWeights == [n |-> 0, done |-> FALSE, regime |-> <<>>, uniform |-> <<>>, weights |-> <<>>]

\* main, lines 116-130, on n columns and the regimes of the dates
MainWeights(n, regime) ==
    /\ ~opt.done
    /\ LET o == [t \in 1..Len(regime) |-> WeightRow(n, TRUE, MainAssetMap(n), regime[t])]
       IN  opt' = [n |-> n, done |-> TRUE, regime |-> regime,
                   uniform |-> [t \in 1..Len(regime) |-> o[t].uniform],
                   weights |-> [t \in 1..Len(regime) |-> MainNormalise(o[t].row, n)]]
    /\ UNCHANGED <<libs, det, pc, loc, hmmFile, fpFile, rfFile, calls, outcome, pred,
                   slv, bt, fac, sig, risk, pipe>>

InitRows == RegimeIdle /\ opt = NoWeights /\ slv = None /\ bt = None /\ RestIdle
NextRows == \E n \in 1..MaxAssets, r1 \in States, r2 \in States : MainWeights(n, <<r1, r2>>)
SpecRows == InitRows /\ [][NextRows]_vars

\* two weight rows hold the same weight for every asset
SameRow(a, b, n) ==
    \A i \in 0..(n - 1) :
        /\ ~FracLess(a.num[i], a.den, b.num[i], b.den)
        /\ ~FracLess(b.num[i], b.den, a.num[i], a.den)

\* C24: in a run on five or more assets, two dates of different regimes get
\* different weight rows
C24_RegimesGetOwnRows ==
    (opt.done /\ opt.n >= 5 /\ opt.regime[1] # opt.regime[2]) =>
        ~SameRow(opt.weights[1], opt.weights[2], opt.n)

(***************************************************************************)
(* PortfolioOptimizer.train_signal_model, lines 241-277: the labels and    *)
(* the training samples of one price column.  Daily returns are integers   *)
(* (hundredths of a percent); `ret` is the return frame after its dropna,  *)
(* dates 1..Len(ret).                                                      *)
(***************************************************************************)
ForwardDays == 21
MinLabels == 100
MinFeatures == 50

RECURSIVE SumOver(_, _, _)
SumOver(ret, lo, hi) == IF lo > hi THEN 0 ELSE ret[lo] + SumOver(ret, lo + 1, hi)

NoForward == [defined |-> FALSE, value |-> 0]

\* line 246: ret.rolling(21).sum().shift(-21): the sum of the 21 returns after
\* date t, NaN when fewer than 21 dates follow
forward(ret) ==
    [t \in 1..Len(ret) |->
        IF t + ForwardDays > Len(ret) THEN NoForward
        ELSE [defined |-> TRUE, value |-> SumOver(ret, t + 1, t + ForwardDays)]]

\* line 253: (forward[col] > 0).astype(int).dropna(): the comparison is False on
\* NaN, so the label of every date is 0 or 1 and dropna() drops no date
y_col(ret) ==
    LET f == forward(ret)
    IN  [t \in 1..Len(ret) |-> IF f[t].defined /\ f[t].value > 0 THEN 1 ELSE 0]

\* lines 254-276: the dates of the column that are trained on
TrainingDates(ret) ==
    LET y == y_col(ret)
        feat_df == DOMAIN y
    IN  IF Len(ret) < MinLabels \/ Cardinality(feat_df) < MinFeatures THEN {} ELSE feat_df

NoTraining == [called |-> FALSE, xgb |-> FALSE, sklearn |-> FALSE, ret |-> <<>>,
               forward |-> <<>>, y |-> <<>>, dates |-> {}, returned |-> "none"]

\* train_signal_model(prices, factors, regime) on one price column
TrainSignalModel(has_xgb, has_sklearn, ret) ==
    /\ ~sig.called
    /\ LET dates == IF has_xgb /\ has_sklearn THEN TrainingDates(ret) ELSE {}
       IN  sig' = [called |-> TRUE, xgb |-> has_xgb, sklearn |-> has_sklearn, ret |-> ret,
                   forward |-> forward(ret), y |-> y_col(ret), dates |-> dates,
                   returned |-> IF dates = {} THEN "False" ELSE "True"]
    /\ UNCHANGED <<libs, det, pc, loc, hmmFile, fpFile, rfFile, calls, outcome, pred,
                   opt, slv, bt, fac, risk, pipe>>

\* daily returns that swing around zero
Swing(n, amp, period, shift) == [t \in 1..n |-> amp * ((t % period) - shift)]
ReturnLengths == {MinLabels - 1, MinLabels, MinLabels + ForwardDays}

InitTrain == /\ RegimeIdle /\ OptIdle /\ slv = NoCall /\ BtIdle
             /\ fac = None /\ risk = None /\ sig = NoTraining /\ pipe = None
NextTrain ==
    \E has_xgb \in BOOLEAN, has_sklearn \in BOOLEAN, n \in ReturnLengths,
       amp \in {1, 2}, period \in {2, 3, 5}, shift \in {0, 1, 2} :
       TrainSignalModel(has_xgb, has_sklearn, Swing(n, amp, period, shift))
SpecTrain == InitTrain /\ [][NextTrain]_vars

\* C30: every date that is trained on has a defined forward 21-day return and the
\* label 1 exactly when that return is positive; none of the last 21 dates of
\* the history is trained on
C30_TrainsOnDefinedForwardReturns ==
    sig.called =>
        /\ \A t \in sig.dates :
              /\ sig.forward[t].defined
              /\ sig.y[t] = 1 <=> sig.forward[t].value > 0
        /\ \A t \in sig.dates : t + ForwardDays <= Len(sig.ret)

====
